---- MODULE Spec2Model ----
(***************************************************************************)
(* A model of the 0-openclaw gateway: the session manager, the             *)
(* process_message pipeline of the gateway, the proof generator and the    *)
(* graph runtime's topological sort and interpreter.                       *)
(*                                                                         *)
(* Conventions.                                                            *)
(*  - A ContentHash is modelled by the byte string it hashes (SHA-256 is   *)
(*    taken to be injective), so two hashes are equal exactly when the     *)
(*    hashed strings are equal.                                            *)
(*  - Confidence and trust values are fixed-point numbers in millionths    *)
(*    (Micro).                                                             *)
(*  - Time is Unix time in milliseconds; the clock advances in steps of    *)
(*    TickMs in a run of the session manager and of a second in a run of   *)
(*    the gateway.                                                         *)
(***************************************************************************)
EXTENDS Integers, Sequences, FiniteSets, Bags, TLC

(***************************************************************************)
(* Bounds of the model.                                                    *)
(***************************************************************************)
MaxMsgs == 2           \* messages handed to process_message in one run
MaxTicks == 3          \* clock advances in one run of the session manager
MaxGwTicks == 1        \* clock advances (of a second) in one run of the gateway
MaxVNodes == 3         \* nodes of a skill graph handed to the verifier
MaxDepth == 2          \* nesting of Map bodies and Filter predicates in it
MaxConnections == 2    \* connections made in one composer
MaxStepLimit == 2      \* RuntimeConfig.max_steps of an interpreter at most
MaxRetries == 2        \* RetryPolicy.max_retries at most
MaxWait == 2           \* max_rate_limit_wait at most
MaxIncoming == 102     \* messages that reach the handlers of a channel
MaxHistory == 3        \* largest max_size handed to EventBus::with_history
MaxPublished == 5      \* publish calls on one event bus
MaxUpdates == 2        \* updates of one session in one run of the session manager
MaxIssued == 2         \* PCAs generated in one run of the proof generator
MaxExec == 1           \* execute_action calls in one run
MaxNodes == 3          \* nodes of a graph
MaxEdges == 3          \* inputs of a graph, over all its nodes
TimeoutSeconds == 0    \* SessionManagerConfig.timeout_seconds of the run

Tasks == {"t1", "t2"}
NoTask == "none"
Channels == {"tg"}
Users == {"u1", "u2"}
Contents == {"/help"}

TickMs == 1000 \div 2
MsPerSecond == 2 * TickMs
Micro == 1000 * 1000
InitialTrust == Micro \div 2       \* SessionManagerConfig.initial_trust = 0.5

VARIABLES
    now,            \* chrono::Utc::now().timestamp_millis()
    ticks,          \* clock advances so far (bounds the run)
    sessions,       \* SessionManager.sessions: id -> Session
    user_sessions,  \* SessionManager.user_sessions: <<channel, user>> -> id
    sessLock,       \* holder of Gateway.sessions' write lock, or NoTask
    route_cache,    \* Router.route_cache (its keys)
    published,      \* EventBus.stats.events_by_type: events published, by type
    pc,             \* each process_message call's position
    msg,            \* each call's message
    loc,            \* each call's locals (session_id, trust_score, route, pca)
    result,         \* what each call returned
    dequeued,       \* history: number of messages handed to process_message
    precedes,       \* history: <<a, b>>: call a returned before call b began
    finished,       \* history: calls that returned
    updLog,         \* history: per session, the updates applied, in order
    generated       \* history: the calls whose PCA generate() signed, in order

gwVars == <<now, ticks, sessions, user_sessions, sessLock, route_cache,
            published, pc, msg, loc, result, dequeued, precedes, finished,
            updLog, generated>>

VARIABLES
    issued,         \* history: what generate() returned, with the signing key
    presented,      \* the PCA handed to verify and to execute_action
    sent,           \* per channel, the messages Channel::send delivered
    executed,       \* history: number of execute_action calls
    exec_result     \* what the last execute_action call returned

proofVars == <<issued, presented, sent, executed, exec_result>>

VARIABLES
    graph,          \* Graph.nodes of the graph under execution
    runs            \* what each of two independent execute calls returned

topoVars == <<graph, runs>>

VARIABLES
    skills,         \* SkillRegistry.skills: content hash -> SkillEntry
    name_index,     \* SkillRegistry.name_index: name -> content hash
    reg_prev,       \* history: the registry's two maps before the last call
    reg_call        \* history: the last registry call and what it returned

regVars == <<skills, name_index, reg_prev, reg_call>>

VARIABLES
    sm_call         \* history: the last session manager call, what it found
                    \* and what it returned

VARIABLES
    router,         \* Router: the conditions of its graph's Route node,
                    \* caching_enabled, default_skill and route_cache
    routed,         \* history: the commands routed with caching enabled
                    \* since the cache was last cleared
    route_ret       \* history: the last route call and what it returned

routerVars == <<router, routed, route_ret>>

VARIABLES
    verify_graph,   \* the SkillGraph handed to SkillVerifier::verify
    verify_ret      \* the VerificationResult it returned

VARIABLES
    state_store,    \* GraphInterpreter.state_store: session id -> Value
    store_call,     \* history: the last state operation or call, and its result
    saved           \* history: per session id, the value a SaveState operation
                    \* saved last

storeVars == <<state_store, store_call, saved>>

VARIABLES
    composer,       \* a SkillComposer: its skills, its connections, and the
                    \* order in which its HashMap of skills iterates
    compose_ret     \* history: what compose returned last for these skills
                    \* and connections

composerVars == <<composer, compose_ret>>

VARIABLES
    stepper,        \* one GraphInterpreter::execute call: its config, its
                    \* sorted nodes, its ExecutionContext and what it returned
    retry,          \* one with_retry or with_rate_limit_retry call: its policy,
                    \* its locals, the operation's results and what it returned
    chan,           \* a channel adapter: its queue of incoming messages, the
                    \* tasks sending into it, and the history of what was
                    \* enqueued and what receive() returned
    event_bus       \* an EventBus: keep_history, max_history, history, and
                    \* the history of the events published

lateVars == <<stepper, retry, chan, event_bus>>

pureVars == <<verify_graph, verify_ret, storeVars, composerVars, lateVars>>

restVars == <<regVars, sm_call, routerVars, pureVars>>

vars == <<gwVars, proofVars, topoVars, restVars>>

(***************************************************************************)
(* Helpers on functions with a growing domain (HashMap).                   *)
(***************************************************************************)
MapPut(m, k, v) == (k :> v) @@ m
MapRemove(m, k) == [x \in DOMAIN m \ {k} |-> m[x]]
EmptyMap == [x \in {} |-> 0]

(***************************************************************************)
(* Session (session.rs).                                                   *)
(***************************************************************************)
\* Session::generate_id: the hash of "session:{channel}:{user}:{timestamp}".
generate_id(channel_id, user_id, timestamp) ==
    "session:" \o channel_id \o ":" \o user_id \o ":" \o ToString(timestamp)

\* Session::new
NewSession(channel_id, user_id, initial_trust, t) ==
    [id |-> generate_id(channel_id, user_id, t),
     channel_id |-> channel_id,
     user_id |-> user_id,
     version |-> 0,
     state_hash |-> "default",
     history |-> <<>>,
     trust_score |-> initial_trust,
     created_at |-> t,
     last_activity |-> t]

\* is_expired comparing milliseconds, without the division
is_expired_Millis(s, timeout_seconds, t) ==
    t - s.last_activity > timeout_seconds * MsPerSecond

\* Session::is_expired
is_expired(s, timeout_seconds, t) ==
    LET elapsed_seconds == (t - s.last_activity) \div MsPerSecond
    IN  elapsed_seconds > timeout_seconds

\* Confidence::new: clamp to [0, 1]
ConfidenceNew(v) == IF v < 0 THEN 0 ELSE IF v > Micro THEN Micro ELSE v

\* calculate_trust with the two weights exchanged
calculate_trust_SwappedWeights(current, action_confidence) ==
    ConfidenceNew((current + 9 * action_confidence) \div 10)

\* SessionManager::update_trust_fallback and the default session graph:
\* new = 0.9 * current + 0.1 * action, as a Confidence.
calculate_trust(current, action_confidence) ==
    ConfidenceNew((9 * current + action_confidence) \div 10)

(***************************************************************************)
(* SessionManager operations, as functions of the manager's two maps.      *)
(***************************************************************************)
\* get_or_create without the index lookup: always creates a session.
get_or_create_NoLookup(ss, us, channel_id, user_id, t) ==
    LET s == NewSession(channel_id, user_id, InitialTrust, t)
    IN  [sessions |-> MapPut(ss, s.id, s),
         user_sessions |-> MapPut(us, <<channel_id, user_id>>, s.id),
         id |-> s.id,
         created |-> TRUE]

\* SessionManager::get_or_create
get_or_create(ss, us, channel_id, user_id, t) ==
    LET key == <<channel_id, user_id>>
        hit == key \in DOMAIN us /\ us[key] \in DOMAIN ss
        live == hit /\ ~is_expired(ss[us[key]], TimeoutSeconds, t)
        \* the expired session is removed, and the index entry with it
        ss1 == IF hit THEN MapRemove(ss, us[key]) ELSE ss
        us1 == IF key \in DOMAIN us THEN MapRemove(us, key) ELSE us
        s == NewSession(channel_id, user_id, InitialTrust, t)
    IN  IF live
        THEN [sessions |-> ss, user_sessions |-> us, id |-> us[key],
              created |-> FALSE]
        ELSE [sessions |-> MapPut(ss1, s.id, s),
              user_sessions |-> MapPut(us1, key, s.id),
              id |-> s.id,
              created |-> TRUE]

\* ContentHash::from_bytes(&version.to_le_bytes()): the hash of a version
version_hash(version) == "v" \o ToString(version)

\* update with the state hash computed before the version is bumped
updated_session_StaleHash(s, pca, t) ==
    [s EXCEPT !.history = Append(@, pca.input_hash),
              !.last_activity = t,
              !.trust_score = calculate_trust(s.trust_score, pca.confidence),
              !.version = @ + 1,
              !.state_hash = version_hash(s.version)]

\* SessionManager::update on an existing session: the new Session.
updated_session(s, pca, t) ==
    [s EXCEPT !.history = Append(@, pca.input_hash),
              !.last_activity = t,
              !.trust_score = calculate_trust(s.trust_score, pca.confidence),
              !.version = @ + 1,
              !.state_hash = version_hash(s.version + 1)]

\* SessionManager::remove
remove(ss, us, session_id) ==
    IF session_id \in DOMAIN ss
    THEN LET key == <<ss[session_id].channel_id, ss[session_id].user_id>>
         IN  [sessions |-> MapRemove(ss, session_id),
              user_sessions |-> IF key \in DOMAIN us THEN MapRemove(us, key)
                                ELSE us]
    ELSE [sessions |-> ss, user_sessions |-> us]

\* SessionManager::cleanup_expired: the ids it collects.
expired_ids(ss, t) ==
    {id \in DOMAIN ss : is_expired(ss[id], TimeoutSeconds, t)}

RECURSIVE remove_all(_, _, _)
remove_all(ss, us, ids) ==
    IF ids = {} THEN [sessions |-> ss, user_sessions |-> us]
    ELSE LET id == CHOOSE x \in ids : TRUE
             r == remove(ss, us, id)
         IN  remove_all(r.sessions, r.user_sessions, ids \ {id})

\* SessionManager::cleanup_expired
cleanup_expired(ss, us, t) ==
    LET expired == expired_ids(ss, t)
        r == remove_all(ss, us, expired)
    IN  [sessions |-> r.sessions, user_sessions |-> r.user_sessions,
         count |-> Cardinality(expired)]


(***************************************************************************)
(* Strings (str::starts_with, str::split_whitespace, str::trim).           *)
(***************************************************************************)
starts_with(s, prefix) ==
    Len(s) >= Len(prefix) /\ SubSeq(s, 1, Len(prefix)) = prefix

RECURSIVE skip_spaces(_)
skip_spaces(s) ==
    IF Len(s) > 0 /\ SubSeq(s, 1, 1) = " " THEN skip_spaces(SubSeq(s, 2, Len(s)))
    ELSE s

RECURSIVE take_word(_)
take_word(s) ==
    IF Len(s) = 0 \/ SubSeq(s, 1, 1) = " " THEN ""
    ELSE SubSeq(s, 1, 1) \o take_word(SubSeq(s, 2, Len(s)))

\* s.split_whitespace().next().unwrap_or("")
first_word(s) == take_word(skip_spaces(s))

RECURSIVE trim_end(_)
trim_end(s) ==
    IF Len(s) > 0 /\ SubSeq(s, Len(s), Len(s)) = " "
    THEN trim_end(SubSeq(s, 1, Len(s) - 1))
    ELSE s

trim(s) == trim_end(skip_spaces(s))

(***************************************************************************)
(* Bytes.  A byte string is a sequence of tokens, each token a string: a   *)
(* JSON lexeme, the 32 bytes of one hash, or one byte of an integer.       *)
(***************************************************************************)
RECURSIVE to_le_bytes(_, _)
\* n.to_le_bytes() for an integer of `width` bytes
to_le_bytes(n, width) ==
    IF width = 0 THEN <<>>
    ELSE <<ToString(n % 256)>> \o to_le_bytes(n \div 256, width - 1)

hash_bytes(h) == <<h>>

RECURSIVE trace_bytes(_)
trace_bytes(trace) ==
    IF trace = <<>> THEN <<>>
    ELSE hash_bytes(Head(trace)) \o trace_bytes(Tail(trace))

\* serde_json::to_vec(action): the externally tagged enum, fields in order.
action_json(action) ==
    CASE action.type = "SendMessage" ->
            <<"{", "SendMessage", ":", "{",
              "channel_id", ":", action.channel_id, ",",
              "recipient_id", ":", action.recipient_id, ",",
              "content", ":", action.content, ",",
              "reply_to", ":", action.reply_to, "}", "}">>
      [] action.type = "ExecuteSkill" ->
            <<"{", "ExecuteSkill", ":", "{",
              "skill_hash", ":", action.skill_hash, ",",
              "inputs", ":", action.inputs, "}", "}">>
      [] action.type = "UpdateSession" ->
            <<"{", "UpdateSession", ":", "{",
              "session_id", ":", action.session_id, ",",
              "updates", ":", action.updates, "}", "}">>
      [] action.type = "NoOp" ->
            <<"{", "NoOp", ":", "{", "reason", ":", action.reason, "}", "}">>

(***************************************************************************)
(* Proof generator (proof.rs).                                             *)
(***************************************************************************)
ConfidenceBytes == 4   \* f32::to_le_bytes
TimestampBytes == 8    \* u64::to_le_bytes

\* build_sign_message without the timestamp
build_sign_message_NoTimestamp(action, session_hash, input_hash, execution_trace, confidence, timestamp) ==
    action_json(action)
      \o hash_bytes(session_hash)
      \o hash_bytes(input_hash)
      \o trace_bytes(execution_trace)
      \o to_le_bytes(confidence, ConfidenceBytes)

\* ProofGenerator::build_sign_message_static
build_sign_message(action, session_hash, input_hash, execution_trace, confidence, timestamp) ==
    action_json(action)
      \o hash_bytes(session_hash)
      \o hash_bytes(input_hash)
      \o trace_bytes(execution_trace)
      \o to_le_bytes(confidence, ConfidenceBytes)
      \o to_le_bytes(timestamp, TimestampBytes)

\* Ed25519: signing is deterministic; a signature verifies under a public
\* key exactly when it is the signature of that message under that key.
Sign(signing_key, message) == [key |-> signing_key, message |-> message]
ZeroSignature == [key |-> "zero", message |-> <<>>]
VerifySignature(verifying_key, message, signature) ==
    signature = Sign(verifying_key, message)

RECURSIVE flatten_nodes(_)
flatten_nodes(traces) ==
    IF traces = <<>> THEN <<>>
    ELSE Head(traces).nodes \o flatten_nodes(Tail(traces))

RECURSIVE count_cached(_)
count_cached(traces) ==
    IF traces = <<>> THEN 0
    ELSE (IF Head(traces).cached THEN 1 ELSE 0) + count_cached(Tail(traces))

\* ProofGenerator::calculate_confidence_fallback, in millionths:
\* (0.99 - 0.001 * len + 0.001 * cached).clamp(0.5, 1.0)
calculate_confidence(trace, traces) ==
    LET base == 99 * (Micro \div 100)
        length_decay == (Micro \div 1000) * Len(trace)
        cache_bonus == (Micro \div 1000) * count_cached(traces)
        v == base - length_decay + cache_bonus
        clamped == IF v < Micro \div 2 THEN Micro \div 2
                   ELSE IF v > Micro THEN Micro ELSE v
    IN  ConfidenceNew(clamped)

\* ProofGenerator::generate
generate(signing_key, action, session_hash, input_hash, traces, t) ==
    LET execution_trace == flatten_nodes(traces)
        confidence == calculate_confidence(execution_trace, traces)
        message == build_sign_message(action, session_hash, input_hash,
                                      execution_trace, confidence, t)
    IN  [action |-> action,
         session_hash |-> session_hash,
         input_hash |-> input_hash,
         execution_trace |-> execution_trace,
         confidence |-> confidence,
         signature |-> Sign(signing_key, message),
         timestamp |-> t]

\* ProofGenerator::verify: Ok(true), or Err(VerificationFailed)
verify(verifying_key, pca) ==
    VerifySignature(verifying_key,
                    build_sign_message(pca.action, pca.session_hash,
                                       pca.input_hash, pca.execution_trace,
                                       pca.confidence, pca.timestamp),
                    pca.signature)

\* ProofCarryingAction::pending
pending(t) ==
    [action |-> [type |-> "NoOp", reason |-> "pending"],
     session_hash |-> "zero",
     input_hash |-> "zero",
     execution_trace |-> <<>>,
     confidence |-> 0,
     signature |-> ZeroSignature,
     timestamp |-> t]


(***************************************************************************)
(* Messages and the router, as the gateway uses them.                      *)
(***************************************************************************)
\* IncomingMessage::new; seq is the history number of the message.
NewMessage(seq, channel_id, sender_id, content, t) ==
    [seq |-> seq,
     id |-> channel_id \o ":" \o sender_id \o ":" \o content \o ":" \o ToString(t),
     channel_id |-> channel_id,
     sender_id |-> sender_id,
     content |-> content,
     timestamp |-> t]

NoMessage == NewMessage(0, "", "", "", 0)

\* cache_key over the whole content of a command
cache_key_WholeContent(message) ==
    IF starts_with(message.content, "/")
    THEN message.content
    ELSE "nocache:" \o message.id

\* Router::cache_key
cache_key(message) ==
    IF starts_with(message.content, "/")
    THEN first_word(message.content)
    ELSE "nocache:" \o message.id

\* The node ids of Router::build_default_graph in an execution order.  The
\* order among nodes that do not depend on one another is not fixed by
\* Graph::topo_sort (see InitialQueues below); this is one of its orders.
DefaultRouteTrace ==
    <<"message", "is_command", "command_name", "command_lookup", "intent",
      "conversation_skill", "route_decision", "params", "skill_target",
      "sender", "channel">>

\* ExecutionTrace::new / ExecutionTrace::cached / from_graph_execution
ExecutionTrace(nodes, cached) == [nodes |-> nodes, cached |-> cached]

\* The Lookup node command_lookup of the default routing graph
command_lookup(command_name) ==
    CASE command_name = "/help" -> "skill:help"
      [] command_name = "/status" -> "skill:status"
      [] command_name = "/skills" -> "skill:list"
      [] command_name = "/search" -> "skill:search"
      [] command_name = "/remind" -> "skill:reminder"
      [] OTHER -> "skill:unknown_command"

\* ClassifyIntentOp followed by the Lookup node conversation_skill, for the
\* message contents of the model (none contains '?', "can you", "could you")
conversation_skill(content) ==
    IF starts_with(content, "hi") \/ starts_with(content, "hello") \/ starts_with(content, "hey")
    THEN "skill:greeting"
    ELSE IF starts_with(content, "please") THEN "skill:assistant"
    ELSE "skill:acknowledge"

\* The output skill_target of the default routing graph (the If node)
skill_target(content) ==
    IF starts_with(content, "/") THEN command_lookup(first_word(content))
    ELSE conversation_skill(content)

\* Router::route with caching enabled: the trace and the skill it returns,
\* given the cache's keys.
route(cache, message) ==
    LET key == cache_key(message)
    IN  IF key \in cache
        THEN [skill_hash |-> skill_target(message.content),
              trace |-> ExecutionTrace(<<>>, TRUE),
              cache |-> cache]
        ELSE [skill_hash |-> skill_target(message.content),
              trace |-> ExecutionTrace(DefaultRouteTrace, FALSE),
              cache |-> cache \cup {key}]

\* Gateway::handle_builtin_command
handle_builtin_command(message) ==
    LET content == trim(message.content)
        text == IF starts_with(content, "/help") THEN "Available commands"
                ELSE IF starts_with(content, "/status") THEN "Gateway Status"
                ELSE "Received: " \o content
    IN  [type |-> "SendMessage",
         channel_id |-> message.channel_id,
         recipient_id |-> message.sender_id,
         content |-> text,
         reply_to |-> message.id]

\* The gateway's skill registry: nothing installs into it.
GatewaySkills == {}

\* Gateway::execute_skill
execute_skill(skill_hash, message) ==
    [action |-> IF skill_hash \in GatewaySkills
                THEN [type |-> "NoOp", reason |-> "Skill execution not yet implemented"]
                ELSE handle_builtin_command(message),
     trace |-> ExecutionTrace(<<skill_hash>>, FALSE)]

GatewayKey == "gateway-key"

\* EventBus::publish, on stats.events_by_type (the gateway's bus has no
\* subscriber here)
publish(bus, type) == bus (+) SetToBag({type})


(***************************************************************************)
(* The state of the parts of the system a run does not exercise.           *)
(***************************************************************************)
NoExecResult == [kind |-> "None", error |-> ""]

ProofIdle ==
    /\ issued = {}
    /\ presented = pending(0)
    /\ sent = <<>>
    /\ executed = 0
    /\ exec_result = NoExecResult

Runs == {1, 2}
NoSort == [ok |-> FALSE, error |-> "", order |-> <<>>]
NoRun == [ok |-> FALSE, error |-> "not run", outputs |-> EmptyMap, trace |-> <<>>, hash |-> <<>>, sorted |-> NoSort]

TopoIdle ==
    /\ graph = <<>>
    /\ runs = [r \in Runs |-> NoRun]

\* SkillRegistry::new
NoRegCall == [op |-> "none", name |-> "", hash |-> <<>>, builtin |-> FALSE, ok |-> FALSE, error |-> "", ret |-> <<>>]

RegistryIdle ==
    /\ skills = EmptyMap
    /\ name_index = EmptyMap
    /\ reg_prev = [skills |-> EmptyMap, name_index |-> EmptyMap]
    /\ reg_call = NoRegCall

NoSmCall == [op |-> "none"]

\* RouteCondition; match_value is <<>> for None and <<s>> for Some(s)
RouteCondition(input, match_value, threshold, target, confidence) ==
    [input |-> input, match_value |-> match_value, threshold |-> threshold, target |-> target, confidence |-> confidence]

\* The conditions of the Route node route_decision of build_default_graph
DefaultConditions ==
    <<RouteCondition("is_command", <<>>, 9 * (Micro \div 10), "command_lookup", 95 * (Micro \div 100)),
      RouteCondition("default", <<>>, 0, "conversation_skill", 7 * (Micro \div 10))>>

\* Router::new
NewRouter(conditions) ==
    [conditions |-> conditions,
     default_skill |-> "skill:default",
     route_cache |-> EmptyMap,
     caching_enabled |-> TRUE]

NoRouteRet == [op |-> "none"]

\* Router::with_defaults
RouterIdle ==
    /\ router = NewRouter(DefaultConditions)
    /\ routed = EmptyMap
    /\ route_ret = NoRouteRet

NoGraph ==
    [name |-> "", version |-> "1", description |-> "null", nodes |-> <<>>,
     entry_point |-> "null", outputs |-> <<>>, permissions |-> <<>>, proofs |-> <<>>]
NoVerification == [safe |-> FALSE, errors |-> <<>>, proof |-> <<>>, called |-> FALSE]

VerifierIdle ==
    /\ verify_graph = NoGraph
    /\ verify_ret = NoVerification

NoStoreCall == [op |-> "none"]

StoreIdle ==
    /\ state_store = EmptyMap
    /\ store_call = NoStoreCall
    /\ saved = EmptyMap

NoCompose == [called |-> FALSE]

ComposerIdle ==
    /\ composer = [hasher |-> <<>>, skills |-> {}, connections |-> <<>>]
    /\ compose_ret = NoCompose

NoStepper == [pc |-> "idle"]
NoRetry == [pc |-> "idle"]

NoChannel == [made |-> FALSE]
NoBus == [made |-> FALSE]

LateIdle ==
    /\ stepper = NoStepper
    /\ retry = NoRetry
    /\ chan = NoChannel
    /\ event_bus = NoBus

PureIdle == VerifierIdle /\ StoreIdle /\ ComposerIdle /\ LateIdle

RestIdle ==
    /\ RegistryIdle
    /\ sm_call = NoSmCall
    /\ RouterIdle
    /\ PureIdle

(***************************************************************************)
(* Gateway::process_message (gateway/mod.rs), one action per stretch       *)
(* between two suspension points.  Acquiring the session manager's write   *)
(* lock is a suspension point; the synchronous call made under the lock    *)
(* and the release at the end of the block are one step.  The router is    *)
(* the default one, whose graph does not fail.                             *)
(***************************************************************************)
NoLocals ==
    [session_id |-> "", session_hash |-> "", trust_score |-> 0,
     skill_hash |-> "", route_trace |-> ExecutionTrace(<<>>, FALSE),
     pca |-> pending(0)]

NoResult == [kind |-> "None", error |-> "", pca |-> pending(0)]
OkResult(pca) == [kind |-> "Ok", error |-> "", pca |-> pca]
ErrResult(error) == [kind |-> "Err", error |-> error, pca |-> pending(0)]

\* history: restrict the update log to the sessions that remain, with an
\* empty log for a session that was just created
SyncLog(log, ss, fresh) ==
    [id \in DOMAIN ss |-> IF id \in fresh \/ id \notin DOMAIN log THEN <<>> ELSE log[id]]

GatewayIdle ==
    /\ now = 0
    /\ ticks = 0
    /\ sessions = EmptyMap
    /\ user_sessions = EmptyMap
    /\ sessLock = NoTask
    /\ route_cache = {}
    /\ published = EmptyBag
    /\ pc = [t \in Tasks |-> "idle"]
    /\ msg = [t \in Tasks |-> NoMessage]
    /\ loc = [t \in Tasks |-> NoLocals]
    /\ result = [t \in Tasks |-> NoResult]
    /\ dequeued = 0
    /\ precedes = {}
    /\ finished = {}
    /\ updLog = EmptyMap
    /\ generated = <<>>

Init == GatewayIdle /\ ProofIdle /\ TopoIdle /\ RestIdle

\* The clock advances by a second while the gateway runs.
GwTick ==
    /\ ticks < MaxGwTicks
    /\ ticks' = ticks + 1
    /\ now' = now + MsPerSecond
    /\ UNCHANGED <<sessions, user_sessions, sessLock, route_cache, published,
                   pc, msg, loc, result, dequeued, precedes, finished, updLog,
                   generated, proofVars, topoVars, restVars>>

\* process_message is called with a message: publish MessageReceived.
Start(t) ==
    /\ pc[t] \in {"idle", "done"}
    /\ dequeued < MaxMsgs
    /\ \E c \in Channels, u \in Users, body \in Contents :
          LET m == NewMessage(dequeued + 1, c, u, body, now)
          IN  /\ msg' = [msg EXCEPT ![t] = m]
              /\ published' = publish(published, "MessageReceived")
    /\ dequeued' = dequeued + 1
    /\ precedes' = precedes \cup (finished \X {dequeued + 1})
    /\ loc' = [loc EXCEPT ![t] = NoLocals]
    /\ result' = [result EXCEPT ![t] = NoResult]
    /\ pc' = [pc EXCEPT ![t] = "lock_get"]
    /\ UNCHANGED <<now, ticks, sessions, user_sessions, sessLock, route_cache,
                   finished, updLog, generated, proofVars, topoVars, restVars>>

\* self.sessions.write().await (step 1, and again at step 5)
AcquireSessions(t) ==
    /\ pc[t] \in {"lock_get", "lock_update"}
    /\ sessLock = NoTask
    /\ sessLock' = t
    /\ pc' = [pc EXCEPT ![t] = IF pc[t] = "lock_get" THEN "get_or_create" ELSE "update"]
    /\ UNCHANGED <<now, ticks, sessions, user_sessions, route_cache, published,
                   msg, loc, result, dequeued, precedes, finished, updLog,
                   generated, proofVars, topoVars, restVars>>

\* Step 1 under the lock: get_or_create, the lock released at the end of
\* the block, then SessionUpdated published.
StepGetOrCreate(t) ==
    LET r == get_or_create(sessions, user_sessions, msg[t].channel_id, msg[t].sender_id, now)
    IN  /\ pc[t] = "get_or_create"
        /\ sessLock = t
        /\ sessions' = r.sessions
        /\ user_sessions' = r.user_sessions
        /\ updLog' = SyncLog(updLog, r.sessions, IF r.created THEN {r.id} ELSE {})
        /\ loc' = [loc EXCEPT ![t].session_id = r.id,
                              ![t].session_hash = r.id,
                              ![t].trust_score = r.sessions[r.id].trust_score]
        /\ sessLock' = NoTask
        /\ published' = publish(published, "SessionUpdated")
        /\ pc' = [pc EXCEPT ![t] = "route"]
        /\ UNCHANGED <<now, ticks, route_cache, msg, result, dequeued, precedes,
                       finished, generated, proofVars, topoVars, restVars>>

\* The call returns: its position, its result, and the history of returns.
Return(t, res) ==
    /\ pc' = [pc EXCEPT ![t] = "done"]
    /\ result' = [result EXCEPT ![t] = res]
    /\ loc' = [loc EXCEPT ![t] = NoLocals]
    /\ finished' = finished \cup {msg[t].seq}

\* Step 2: route under the router's lock, then SkillInvoked published.
StepRoute(t) ==
    LET r == route(route_cache, msg[t])
    IN  /\ pc[t] = "route"
        /\ route_cache' = r.cache
        /\ loc' = [loc EXCEPT ![t].skill_hash = r.skill_hash,
                              ![t].route_trace = r.trace]
        /\ published' = publish(published, "SkillInvoked")
        /\ pc' = [pc EXCEPT ![t] = "execute_skill"]
        /\ UNCHANGED <<now, ticks, sessions, user_sessions, sessLock, msg,
                       result, dequeued, precedes, finished, updLog, generated,
                       proofVars, topoVars, restVars>>

\* Steps 3 and 4: execute_skill, then generate (neither fails).
StepExecuteAndProve(t) ==
    LET e == execute_skill(loc[t].skill_hash, msg[t])
        pca == generate(GatewayKey, e.action, loc[t].session_hash, msg[t].id, <<loc[t].route_trace, e.trace>>, now)
    IN  /\ pc[t] = "execute_skill"
        /\ loc' = [loc EXCEPT ![t].pca = pca]
        /\ generated' = Append(generated, [seq |-> msg[t].seq, session |-> loc[t].session_id])
        /\ pc' = [pc EXCEPT ![t] = "lock_update"]
        /\ UNCHANGED <<now, ticks, sessions, user_sessions, sessLock,
                       route_cache, published, msg, result, dequeued, precedes,
                       finished, updLog, proofVars, topoVars, restVars>>

\* Step 5 with the trust computed from the score read at step 1.
StepUpdate_StaleTrust(t) ==
    LET id == loc[t].session_id
        pca == loc[t].pca
        stale == calculate_trust(loc[t].trust_score, pca.confidence)
    IN  /\ pc[t] = "update"
        /\ sessLock = t
        /\ sessLock' = NoTask
        /\ IF id \in DOMAIN sessions
           THEN /\ sessions' = [sessions EXCEPT ![id] = [updated_session(sessions[id], pca, now) EXCEPT !.trust_score = stale]]
                /\ updLog' = [updLog EXCEPT ![id] = Append(@, [seq |-> msg[t].seq, confidence |-> pca.confidence])]
                /\ published' = publish(published, "MessageProcessed")
                /\ Return(t, OkResult(pca))
           ELSE /\ Return(t, ErrResult("RouterError: Session not found"))
                /\ UNCHANGED <<sessions, updLog, published>>
        /\ UNCHANGED <<now, ticks, user_sessions, route_cache, msg, dequeued,
                       precedes, generated, proofVars, topoVars, restVars>>

\* Step 5 under the lock: update; NotFound is returned as an error,
\* otherwise MessageProcessed is published and the PCA returned.
StepUpdate(t) ==
    LET id == loc[t].session_id
        pca == loc[t].pca
    IN  /\ pc[t] = "update"
        /\ sessLock = t
        /\ sessLock' = NoTask
        /\ IF id \in DOMAIN sessions
           THEN /\ sessions' = [sessions EXCEPT ![id] = updated_session(sessions[id], pca, now)]
                /\ updLog' = [updLog EXCEPT ![id] = Append(@, [seq |-> msg[t].seq, confidence |-> pca.confidence])]
                /\ published' = publish(published, "MessageProcessed")
                /\ Return(t, OkResult(pca))
           ELSE /\ Return(t, ErrResult("RouterError: Session not found"))
                /\ UNCHANGED <<sessions, updLog, published>>
        /\ UNCHANGED <<now, ticks, user_sessions, route_cache, msg, dequeued,
                       precedes, generated, proofVars, topoVars, restVars>>

\* Gateway::cleanup_sessions: cleanup_expired under the write lock.
CleanupSessions ==
    LET r == cleanup_expired(sessions, user_sessions, now)
    IN  /\ sessLock = NoTask
        /\ r.count > 0      \* with nothing expired the call changes nothing
        /\ sessions' = r.sessions
        /\ user_sessions' = r.user_sessions
        /\ updLog' = SyncLog(updLog, r.sessions, {})
        /\ UNCHANGED <<now, ticks, sessLock, route_cache, published, pc, msg,
                       loc, result, dequeued, precedes, finished, generated,
                       proofVars, topoVars, restVars>>

GwNext ==
    \/ GwTick
    \/ \E t \in Tasks : Start(t)
    \/ \E t \in Tasks : AcquireSessions(t)
    \/ \E t \in Tasks : StepGetOrCreate(t)
    \/ \E t \in Tasks : StepRoute(t)
    \/ \E t \in Tasks : StepExecuteAndProve(t)
    \/ \E t \in Tasks : StepUpdate(t)
    \/ CleanupSessions

SpecGateway == Init /\ [][GwNext]_vars

(***************************************************************************)
(* Properties of process_message.                                          *)
(***************************************************************************)
\* The positions of a call after its get_or_create and up to its update.
BetweenGetAndUpdate == {"route", "execute_skill", "lock_update", "update"}

\* C2: while a call processes a message, it holds the session manager's
\* lock from its get_or_create through its update.
LockHeldAcrossGetAndUpdate ==
    \A t \in Tasks : pc[t] \in BetweenGetAndUpdate => sessLock = t

\* The EMA steps of a log applied one after another to a trust value:
\* new = 0.9 * current + 0.1 * confidence.
RECURSIVE EmaFold(_, _)
EmaFold(trust, log) ==
    IF log = <<>> THEN trust
    ELSE EmaFold((9 * trust + Head(log).confidence) \div 10, Tail(log))

\* Two calls overlapped: neither returned before the other began.
Overlap(a, b) == a # b /\ <<a, b>> \notin precedes /\ <<b, a>> \notin precedes

\* C3: the trust of a session is the EMA steps of the updates that ran on
\* it, applied one after another in the order they ran, none lost: the
\* history holds one entry for each.
TrustIsSequentialEma ==
    \A id \in DOMAIN sessions :
        /\ id \in DOMAIN updLog
        /\ sessions[id].trust_score = EmaFold(InitialTrust, updLog[id])
        /\ Len(sessions[id].history) = Len(updLog[id])
        /\ sessions[id].version = Len(updLog[id])

\* Two overlapping calls have both updated one session.
OverlappingUpdatesDone ==
    \E id \in DOMAIN sessions :
        /\ Len(updLog[id]) = 2
        /\ Overlap(updLog[id][1].seq, updLog[id][2].seq)
        /\ updLog[id][1].confidence # updLog[id][2].confidence

\* C4: the PCAs of one session are generated, and recorded in the session
\* history, in the order their messages were dequeued.
PcasInDequeueOrder ==
    /\ \A i, j \in 1..Len(generated) :
          (i < j /\ generated[i].session = generated[j].session)
              => generated[i].seq < generated[j].seq
    /\ \A id \in DOMAIN updLog : \A i, j \in 1..Len(updLog[id]) :
          i < j => updLog[id][i].seq < updLog[id][j].seq

\* C5: a call that has returned has returned a PCA signed by the gateway,
\* a NoOp when a step failed.
AlwaysReturnsPca ==
    \A t \in Tasks : pc[t] = "done" =>
        /\ result[t].kind = "Ok"
        /\ verify(GatewayKey, result[t].pca)

(***************************************************************************)
(* The session manager on its own: any sequence of get_or_create, update,  *)
(* remove and cleanup_expired calls, the clock advancing in between.  A    *)
(* call of update or remove with an id the manager does not hold returns   *)
(* NotFound or None and changes nothing.                                   *)
(***************************************************************************)
otherVars == <<sessLock, route_cache, published, pc, msg, loc, result, dequeued, precedes, finished, generated, proofVars, topoVars, regVars, routerVars, pureVars>>

\* The (channel, user) pairs of the calls: two users, each on a channel of
\* their own
SessionPairs == {<<"tg", "x:u1">>, <<"tg:x", "u1">>}

NoSession == NewSession("", "", 0, 0)

SmTick ==
    /\ ticks < MaxTicks
    /\ ticks' = ticks + 1
    /\ now' = now + TickMs
    /\ UNCHANGED <<sessions, user_sessions, updLog, otherVars, sm_call>>

\* get_or_create(channel, user); the history keeps what the index held for
\* the pair before the call and the session the call returned
SmGetOrCreate ==
    /\ \E key \in SessionPairs :
          LET r == get_or_create(sessions, user_sessions, key[1], key[2], now)
              indexed == key \in DOMAIN user_sessions /\ user_sessions[key] \in DOMAIN sessions
              before == IF indexed THEN sessions[user_sessions[key]] ELSE NoSession
          IN  /\ sessions' = r.sessions
              /\ user_sessions' = r.user_sessions
              /\ updLog' = SyncLog(updLog, r.sessions, IF r.created THEN {r.id} ELSE {})
              /\ sm_call' = [op |-> "get_or_create", key |-> key, t |-> now,
                             indexed |-> indexed, before |-> before,
                             ret |-> r.sessions[r.id]]
    /\ UNCHANGED <<now, ticks, otherVars>>

\* The PCAs handed to update: of a cached route and of an executed one.
UpdateTraces == {<<ExecutionTrace(<<>>, TRUE)>>, <<ExecutionTrace(<<"n1">>, FALSE)>>}

\* update(session_id, pca) on a session the manager holds; the input hash
\* of the PCA tells the two kinds of message apart
SmUpdate ==
    /\ \E id \in DOMAIN sessions, traces \in UpdateTraces :
          LET action == [type |-> "NoOp", reason |-> "update"]
              input_hash == IF traces[1].cached THEN "input-cached" ELSE "input"
              p == generate(GatewayKey, action, id, input_hash, traces, now)
          IN  /\ sessions[id].version < MaxUpdates
              /\ sessions' = [sessions EXCEPT ![id] = updated_session(sessions[id], p, now)]
              /\ updLog' = [updLog EXCEPT ![id] = Append(@, [seq |-> 0, confidence |-> p.confidence])]
              /\ sm_call' = [op |-> "update", id |-> id, t |-> now,
                             input_hash |-> p.input_hash,
                             confidence |-> p.confidence,
                             before |-> sessions[id]]
    /\ UNCHANGED <<now, ticks, user_sessions, otherVars>>

SmRemove ==
    /\ \E id \in DOMAIN sessions :
          LET r == remove(sessions, user_sessions, id)
          IN  /\ sessions' = r.sessions
              /\ user_sessions' = r.user_sessions
              /\ updLog' = SyncLog(updLog, r.sessions, {})
              /\ sm_call' = [op |-> "remove", id |-> id, t |-> now]
    /\ UNCHANGED <<now, ticks, otherVars>>

\* cleanup_expired(); the history keeps the two maps as they were before
\* the call and the count the call returned
SmCleanupExpired ==
    LET r == cleanup_expired(sessions, user_sessions, now)
    IN  /\ sessions' = r.sessions
        /\ user_sessions' = r.user_sessions
        /\ updLog' = SyncLog(updLog, r.sessions, {})
        /\ sm_call' = [op |-> "cleanup_expired", count |-> r.count, t |-> now,
                       sessions |-> sessions, user_sessions |-> user_sessions]
        /\ UNCHANGED <<now, ticks, otherVars>>

SessionNext ==
    \/ SmTick
    \/ SmGetOrCreate
    \/ SmUpdate
    \/ SmRemove
    \/ SmCleanupExpired

SpecSession == Init /\ [][SessionNext]_vars

\* C1: the session manager holds at most one non-expired session for each
\* (channel_id, user_id) pair.
SessionUniqueness ==
    \A a, b \in DOMAIN sessions :
        (/\ sessions[a].channel_id = sessions[b].channel_id
         /\ sessions[a].user_id = sessions[b].user_id
         /\ ~is_expired(sessions[a], TimeoutSeconds, now)
         /\ ~is_expired(sessions[b], TimeoutSeconds, now)) => a = b

\* A session created after the timeout had passed, and since updated, is
\* live next to the expired session of another pair.
LiveBesideExpired ==
    \E a, b \in DOMAIN sessions :
        /\ sessions[a].user_id # sessions[b].user_id
        /\ sessions[a].created_at >= (TimeoutSeconds + 1) * MsPerSecond
        /\ sessions[a].version > 0
        /\ ~is_expired(sessions[a], TimeoutSeconds, now)
        /\ is_expired(sessions[b], TimeoutSeconds, now)

(***************************************************************************)
(* The proof generator and Gateway::execute_action.  PCAs are generated    *)
(* under the gateway's key or under another key; whoever hands a PCA to    *)
(* the gateway may have replaced any of its fields, the signature too.     *)
(* The clock stands still during a run: generate stamps every PCA with the *)
(* same time, and a replaced timestamp is drawn from ProofTimes.           *)
(***************************************************************************)
OtherKey == "other-key"
ProofHashes == {"h1", "h2"}
ProofActions ==
    {[type |-> "SendMessage", channel_id |-> "tg", recipient_id |-> "u1", content |-> "hello", reply_to |-> "null"],
     [type |-> "SendMessage", channel_id |-> "irc", recipient_id |-> "u1", content |-> "hello", reply_to |-> "null"],
     [type |-> "NoOp", reason |-> "nothing to do"]}
ProofTraces ==
    {<<ExecutionTrace(<<>>, TRUE)>>,
     <<ExecutionTrace(<<"h1">>, FALSE)>>,
     <<ExecutionTrace(<<"h1">>, FALSE), ExecutionTrace(<<"h2">>, FALSE)>>}
ProofTimes == {0, MsPerSecond}

\* history: the PCA is one generate returned under the gateway's key
Authentic(p) == [key |-> GatewayKey, pca |-> p] \in issued

gwOnlyVars == <<sessions, user_sessions, sessLock, route_cache, pc, msg, loc, result, dequeued, precedes, finished, updLog, generated>>

\* ProofGenerator::generate, by the gateway or by the holder of another key
Generate ==
    /\ Cardinality(issued) < MaxIssued
    /\ \E key \in {GatewayKey, OtherKey}, action \in ProofActions, traces \in ProofTraces :
          LET p == generate(key, action, "h1", "h2", traces, now)
          IN  /\ issued' = issued \cup {[key |-> key, pca |-> p]}
              /\ presented' = p
    /\ UNCHANGED <<now, ticks, published, sent, executed, exec_result, gwOnlyVars, topoVars, restVars>>

\* A PCA generated earlier is presented again.
Present ==
    /\ \E i \in issued : presented' = i.pca
    /\ UNCHANGED <<now, ticks, published, issued, sent, executed, exec_result, gwOnlyVars, topoVars, restVars>>

\* One field of a generated PCA is replaced (the fields are public).
Tamper ==
    /\ \E i \in issued :
          /\ presented = i.pca
          /\ \/ \E v \in ProofActions : presented' = [presented EXCEPT !.action = v]
             \/ \E v \in ProofHashes : presented' = [presented EXCEPT !.session_hash = v]
             \/ \E v \in ProofHashes : presented' = [presented EXCEPT !.input_hash = v]
             \/ \E v \in ProofTraces : presented' = [presented EXCEPT !.execution_trace = flatten_nodes(v)]
             \/ \E v \in ProofTraces : presented' = [presented EXCEPT !.confidence = calculate_confidence(flatten_nodes(v), v)]
             \/ \E v \in ProofTimes : presented' = [presented EXCEPT !.timestamp = v]
             \/ \E j \in issued : presented' = [presented EXCEPT !.signature = j.pca.signature]
             \/ presented' = [presented EXCEPT !.signature = ZeroSignature]
    /\ UNCHANGED <<now, ticks, published, issued, sent, executed, exec_result, gwOnlyVars, topoVars, restVars>>

\* Gateway.channels: the channels registered with the gateway
RegisteredChannels == Channels

\* Gateway::execute_action without the verification
execute_action_NoVerify(p, send_ok) ==
    IF p.action.type = "SendMessage" /\ p.action.channel_id \in RegisteredChannels /\ ~send_ok
    THEN [kind |-> "Err", error |-> "ChannelNotFound", send |-> FALSE, event |-> FALSE]
    ELSE [kind |-> "Ok", error |-> "",
          send |-> p.action.type = "SendMessage" /\ p.action.channel_id \in RegisteredChannels,
          event |-> TRUE]

\* Gateway::execute_action: what it returns, whether it sends the message
\* and whether it publishes ActionExecuted; send_ok is whether Channel::send
\* succeeds.
execute_action(p, send_ok) ==
    IF ~verify(GatewayKey, p)
    THEN [kind |-> "Err", error |-> "VmError: Proof verification failed", send |-> FALSE, event |-> FALSE]
    ELSE IF p.action.type = "SendMessage" /\ p.action.channel_id \in RegisteredChannels /\ ~send_ok
    THEN [kind |-> "Err", error |-> "ChannelNotFound", send |-> FALSE, event |-> FALSE]
    ELSE [kind |-> "Ok", error |-> "",
          send |-> p.action.type = "SendMessage" /\ p.action.channel_id \in RegisteredChannels,
          event |-> TRUE]

ExecuteAction ==
    /\ executed < MaxExec
    /\ executed' = executed + 1
    /\ \E send_ok \in BOOLEAN :
          LET r == execute_action(presented, send_ok)
          IN  /\ exec_result' = [kind |-> r.kind, error |-> r.error]
              /\ sent' = IF r.send THEN Append(sent, presented.action) ELSE sent
              /\ published' = IF r.event THEN publish(published, "ActionExecuted") ELSE published
    /\ UNCHANGED <<now, ticks, issued, presented, gwOnlyVars, topoVars, restVars>>

ProofNext ==
    \/ Generate
    \/ Present
    \/ Tamper
    \/ ExecuteAction

SpecProof == Init /\ [][ProofNext]_vars

\* C6: verify succeeds on a PCA exactly when generate produced it under the
\* gateway's key and no field has been changed since.
VerifyIffGenuine ==
    verify(GatewayKey, presented) <=> Authentic(presented)

\* A PCA of the gateway with nothing but its timestamp changed is presented.
TimestampTampered ==
    \E i \in issued, v \in ProofTimes :
        /\ i.key = GatewayKey
        /\ v # i.pca.timestamp
        /\ presented = [i.pca EXCEPT !.timestamp = v]
        /\ ~verify(GatewayKey, presented)

\* C7: an execute_action call on a PCA that is not one of the gateway's
\* sends no message, publishes no ActionExecuted event and returns an error.
ExecuteFailsClosed ==
    [][(executed' # executed /\ ~Authentic(presented)) =>
          (/\ sent' = sent
           /\ published' = published
           /\ exec_result'.kind = "Err")]_vars

\* execute_action has refused a PCA of the gateway with a changed field.
TamperedRefused ==
    /\ executed > 0
    /\ exec_result.error = "VmError: Proof verification failed"
    /\ ~Authentic(presented)
    /\ \E i \in issued : i.key = GatewayKey /\ i.pca.signature = presented.signature

(***************************************************************************)
(* Graph::topo_sort (runtime/types.rs) and GraphInterpreter::execute       *)
(* (runtime/interpreter.rs).  in_degree is a HashMap: the order in which   *)
(* its iteration yields the nodes of in-degree zero is not determined (the *)
(* hasher of each map is seeded at random), so the initial queue is any    *)
(* arrangement of them.  Node ids are distinct.                            *)
(***************************************************************************)
AllIds == <<"a", "b", "c", "d", "e">>
Dangling == "x"            \* an input that names no node
FieldRef == "a.f"          \* a field reference "node.field"
\* GraphNode: a node without inputs is External { uri: "input://<id>" },
\* a node with inputs is Operation { op: "Identity" }.
GraphNode(id, inputs) ==
    [id |-> id, kind |-> IF inputs = <<>> THEN "External" ELSE "Operation",
     uri |-> "input://" \o id, inputs |-> inputs]

\* The references an input of a graph of n nodes may hold, in the order in
\* which a node lists them
Refs(n) == SubSeq(AllIds, 1, n) \o <<Dangling, FieldRef>>

\* The sets of up to k elements of S
RECURSIVE SubsetsUpTo(_, _)
SubsetsUpTo(S, k) ==
    IF k = 0 THEN {{}}
    ELSE LET prev == SubsetsUpTo(S, k - 1)
         IN  prev \cup {T \cup {x} : T \in prev, x \in S}

\* The graphs of n nodes with up to MaxEdges inputs in all.
GraphsOf(n) ==
    LET slots == {AllIds[i] : i \in 1..n} \X {Refs(n)[k] : k \in DOMAIN Refs(n)}
        inputs_of(E, id) == SelectSeq(Refs(n), LAMBDA r : <<id, r>> \in E)
    IN  {[i \in 1..n |-> GraphNode(AllIds[i], inputs_of(E, AllIds[i]))] : E \in SubsetsUpTo(slots, MaxEdges)}

\* input.split('.').next().unwrap()
RECURSIVE split_dot_first(_)
split_dot_first(s) ==
    IF Len(s) = 0 \/ SubSeq(s, 1, 1) = "." THEN ""
    ELSE SubSeq(s, 1, 1) \o split_dot_first(SubSeq(s, 2, Len(s)))

\* input_ref.contains('.')
contains_dot(s) == Len(split_dot_first(s)) < Len(s)

\* Graph::get_node: the first node with the id
has_node(nodes, id) == \E i \in DOMAIN nodes : nodes[i].id = id

\* topo_sort, "Initialize" and "Build adjacency and in-degree": in_degree
in_degree(nodes) ==
    [id \in {nodes[i].id : i \in DOMAIN nodes} |->
        Len(nodes[CHOOSE i \in DOMAIN nodes : nodes[i].id = id /\ \A j \in 1..(i - 1) : nodes[j].id # id].inputs)]

\* topo_sort, "Build adjacency and in-degree": adj[from], the nodes that
\* name `from` as an input, in the order of self.nodes
RECURSIVE adj(_, _)
adj(nodes, from) ==
    IF nodes = <<>> THEN <<>>
    ELSE LET n == Head(nodes)
             hits == {i \in DOMAIN n.inputs : split_dot_first(n.inputs[i]) = from}
         IN  [k \in 1..Cardinality(hits) |-> n.id] \o adj(Tail(nodes), from)

\* The inner loop of Kahn's algorithm: decrement the neighbours' degrees
\* and push those that reach zero.
RECURSIVE relax(_, _, _)
relax(neighbors, deg, queue) ==
    IF neighbors = <<>> THEN [in_degree |-> deg, queue |-> queue]
    ELSE LET n == Head(neighbors)
         IN  IF n \in DOMAIN deg
             THEN relax(Tail(neighbors), [deg EXCEPT ![n] = @ - 1],
                        IF deg[n] - 1 = 0 THEN Append(queue, n) ELSE queue)
             ELSE relax(Tail(neighbors), deg, queue)

\* while let Some(node_id) = queue.pop()
RECURSIVE kahn(_, _, _, _)
kahn(nodes, queue, deg, sorted) ==
    IF queue = <<>> THEN sorted
    ELSE LET node_id == queue[Len(queue)]
             r == relax(adj(nodes, node_id), deg, SubSeq(queue, 1, Len(queue) - 1))
         IN  kahn(nodes, r.queue, r.in_degree,
                  IF has_node(nodes, node_id) THEN Append(sorted, node_id) ELSE sorted)

\* The arrangements in which in_degree.iter() yields the nodes of degree 0
InitialQueues(nodes) ==
    LET deg == in_degree(nodes)
        zero == {id \in DOMAIN deg : deg[id] = 0}
    IN  {q \in [1..Cardinality(zero) -> zero] : \A i, j \in DOMAIN q : i # j => q[i] # q[j]}

\* Graph::topo_sort, given the initial queue
topo_sort(nodes, queue) ==
    LET sorted == kahn(nodes, queue, in_degree(nodes), <<>>)
    IN  IF Len(sorted) # Len(nodes)
        THEN [ok |-> FALSE, error |-> "ConfigError: Cycle detected in graph", order |-> <<>>]
        ELSE [ok |-> TRUE, error |-> "", order |-> sorted]

(***************************************************************************)
(* GraphInterpreter::execute.  A Value is Null or a String; a ContentHash  *)
(* is the byte string it hashes.                                           *)
(***************************************************************************)
Null == [type |-> "Null", s |-> ""]
String(s) == [type |-> "String", s |-> s]

\* serde_json::to_vec(value)
value_json(v) == IF v.type = "Null" THEN "null" ELSE "\"" \o v.s \o "\""

\* uri.strip_prefix("input://").unwrap_or(uri)
strip_input_prefix(uri) ==
    IF starts_with(uri, "input://") THEN SubSeq(uri, Len("input://") + 1, Len(uri)) ELSE uri

\* GraphInterpreter::gather_inputs: a missing node, or a field of a value
\* that is not a Map, is Null
gather_inputs(input_refs, node_values) ==
    [i \in DOMAIN input_refs |->
        IF contains_dot(input_refs[i]) THEN Null
        ELSE IF input_refs[i] \in DOMAIN node_values THEN node_values[input_refs[i]]
        ELSE Null]

\* GraphInterpreter::execute_node, for External and Operation Identity
execute_node(node, inputs, node_values) ==
    IF node.kind = "External"
    THEN LET key == strip_input_prefix(node.uri)
         IN  IF key \in DOMAIN inputs THEN inputs[key] ELSE Null
    ELSE LET input_values == gather_inputs(node.inputs, node_values)
         IN  IF input_values = <<>> THEN Null ELSE Head(input_values)

\* The loop of execute over the sorted nodes: ctx.node_values
RECURSIVE run_nodes(_, _, _, _)
run_nodes(nodes, order, inputs, node_values) ==
    IF order = <<>> THEN node_values
    ELSE LET node == nodes[CHOOSE i \in DOMAIN nodes : nodes[i].id = Head(order)]
             value == execute_node(node, inputs, node_values)
         IN  run_nodes(nodes, Tail(order), inputs, MapPut(node_values, node.id, value))

\* GraphInterpreter::compute_execution_hash
RECURSIVE compute_execution_hash(_, _)
compute_execution_hash(trace, node_values) ==
    IF trace = <<>> THEN <<>>
    ELSE <<Head(trace), value_json(node_values[Head(trace)])>> \o compute_execution_hash(Tail(trace), node_values)

max_steps == 10000     \* RuntimeConfig::default().max_steps

\* GraphInterpreter::execute, given the initial queue of topo_sort
execute(nodes, outputs, inputs, queue) ==
    LET sorted == topo_sort(nodes, queue)
        node_values == run_nodes(nodes, sorted.order, inputs, EmptyMap)
    IN  IF ~sorted.ok
        THEN [ok |-> FALSE, error |-> sorted.error, outputs |-> EmptyMap, trace |-> <<>>, hash |-> <<>>, sorted |-> sorted]
        ELSE IF Len(sorted.order) > max_steps
        THEN [ok |-> FALSE, error |-> "ExecutionError: Maximum execution steps exceeded", outputs |-> EmptyMap, trace |-> <<>>, hash |-> <<>>, sorted |-> sorted]
        ELSE [ok |-> TRUE, error |-> "",
              outputs |-> [id \in outputs \cap DOMAIN node_values |-> node_values[id]],
              trace |-> sorted.order,
              hash |-> compute_execution_hash(sorted.order, node_values),
              sorted |-> sorted]

\* The inputs of the execute calls: no input for the last id.
ExecInputs == [id \in {AllIds[i] : i \in 1..(MaxNodes - 1)} |-> String("in-" \o id)]

TopoInit ==
    /\ GatewayIdle
    /\ ProofIdle
    /\ RestIdle
    /\ \E n \in 1..MaxNodes : graph \in GraphsOf(n)
    /\ runs = [r \in Runs |-> NoRun]

\* One of two independent execute calls on the graph, with the same inputs;
\* Graph.outputs names every node.
Execute(r) ==
    /\ runs[r] = NoRun
    /\ \E q \in InitialQueues(graph) :
          runs' = [runs EXCEPT ![r] = execute(graph, {graph[i].id : i \in DOMAIN graph}, ExecInputs, q)]
    /\ UNCHANGED <<graph, gwVars, proofVars, restVars>>

TopoNext == \E r \in Runs : Execute(r)

SpecTopo == TopoInit /\ [][TopoNext]_vars

\* The edges of a graph: from the node an input names to the node
Edges(nodes) ==
    UNION {{<<split_dot_first(nodes[i].inputs[k]), nodes[i].id>> : k \in DOMAIN nodes[i].inputs} : i \in DOMAIN nodes}

\* What is reachable from a set of vertices along edges
RECURSIVE Reachable(_, _)
Reachable(E, S) ==
    LET T == S \cup {e[2] : e \in {x \in E : x[1] \in S}}
    IN  IF T = S THEN S ELSE Reachable(E, T)

\* No vertex is reachable from itself along one edge or more.
Acyclic(nodes) ==
    LET E == Edges(nodes)
    IN  \A e \in E : e[1] \notin Reachable(E, {e[2]})

Position(order, id) == CHOOSE i \in DOMAIN order : order[i] = id

\* C8: two independent execute calls with the same graph and inputs return
\* equal outputs, the same execution hash and the same trace.
ExecuteDeterministic ==
    (runs[1] # NoRun /\ runs[2] # NoRun) =>
        /\ runs[1].outputs = runs[2].outputs
        /\ runs[1].hash = runs[2].hash
        /\ runs[1].trace = runs[2].trace

\* C9: topo_sort of a graph succeeds exactly when the graph is acyclic.
TopoSortIffAcyclic ==
    \A r \in Runs : runs[r] # NoRun => (runs[r].sorted.ok <=> Acyclic(graph))

\* C10: for an acyclic graph topo_sort returns every node exactly once,
\* and u before v for every edge u -> v.
TopoSortOrders ==
    \A r \in Runs : (runs[r] # NoRun /\ Acyclic(graph)) =>
        LET order == runs[r].sorted.order
        IN  /\ runs[r].sorted.ok
            /\ Len(order) = Len(graph)
            /\ \A i \in DOMAIN graph : \E k \in DOMAIN order : order[k] = graph[i].id
            /\ \A e \in Edges(graph) :
                  /\ \E k \in DOMAIN order : order[k] = e[1]
                  /\ Position(order, e[1]) < Position(order, e[2])

(***************************************************************************)
(* Skill graphs (skills/graph.rs), the skill verifier (skills/verifier.rs) *)
(* and the skill registry (skills/registry.rs).                            *)
(***************************************************************************)
\* SkillNode::Input, ::Operation and ::External; id is SkillNode::id()
InputNode(name, tensor_type) ==
    [kind |-> "Input", id |-> name, tensor_type |-> tensor_type, op |-> "", body |-> <<>>, uri |-> "", inputs |-> <<>>]
OperationNode(id, op, inputs) ==
    [kind |-> "Operation", id |-> id, tensor_type |-> "", op |-> op, body |-> <<>>, uri |-> "", inputs |-> inputs]
\* SkillNode::Operation with Op::Map { body } or Op::Filter { predicate }
NestedNode(id, op, body, inputs) ==
    [kind |-> "Operation", id |-> id, tensor_type |-> "", op |-> op, body |-> <<body>>, uri |-> "", inputs |-> inputs]
ExternalNode(id, uri, inputs) ==
    [kind |-> "External", id |-> id, tensor_type |-> "", op |-> "", body |-> <<>>, uri |-> uri, inputs |-> inputs]

\* SkillGraphBuilder: new, description, add_*, permission and build.  The
\* entry point is the first Input node added, the outputs default to the
\* last node.
SkillGraph(name, description, nodes, permissions) ==
    LET input_at == {i \in DOMAIN nodes : nodes[i].kind = "Input"}
        first_input == CHOOSE i \in input_at : \A j \in input_at : i <= j
    IN  [name |-> name,
         version |-> "1",
         description |-> description,
         nodes |-> nodes,
         entry_point |-> IF input_at = {} THEN "null" ELSE nodes[first_input].id,
         outputs |-> IF nodes = <<>> THEN <<>> ELSE <<nodes[Len(nodes)].id>>,
         permissions |-> permissions,
         proofs |-> <<>>]

\* serde_json::to_vec of a Vec<String>
strings_json(strs) == <<"[">> \o strs \o <<"]">>

\* serde_json::to_vec of a SafetyProof; memory_bound is an Option
proof_json(p) ==
    <<"{", "max_steps", ":", ToString(p.max_steps), ",", "fuel_budget", ":", ToString(p.fuel_budget), ",",
      "halting_proven", ":", IF p.halting_proven THEN "true" ELSE "false", ",",
      "memory_bound", ":", IF p.memory_bound = <<>> THEN "null" ELSE ToString(p.memory_bound[1]), "}">>

RECURSIVE proofs_json(_)
proofs_json(proofs) ==
    IF proofs = <<>> THEN <<>> ELSE proof_json(Head(proofs)) \o proofs_json(Tail(proofs))

RECURSIVE graph_json(_)

\* serde_json::to_vec of an Op: a unit variant is its name, Map and Filter
\* carry the graph of their body
op_json(n) ==
    IF n.body = <<>> THEN <<n.op>>
    ELSE <<"{", n.op, ":", "{", IF n.op = "Map" THEN "body" ELSE "predicate", ":">>
           \o graph_json(n.body[1]) \o <<"}", "}">>

\* serde_json::to_vec of a SkillNode: the externally tagged enum
node_json(n) ==
    CASE n.kind = "Input" ->
            <<"{", "Input", ":", "{", "name", ":", n.id, ",", "tensor_type", ":", n.tensor_type, "}", "}">>
      [] n.kind = "Operation" ->
            <<"{", "Operation", ":", "{", "id", ":", n.id, ",", "op", ":">> \o op_json(n) \o <<",", "inputs", ":">>
              \o strings_json(n.inputs) \o <<"}", "}">>
      [] n.kind = "External" ->
            <<"{", "External", ":", "{", "id", ":", n.id, ",", "uri", ":", n.uri, ",", "inputs", ":">>
              \o strings_json(n.inputs) \o <<"}", "}">>

RECURSIVE nodes_json(_)
nodes_json(nodes) ==
    IF nodes = <<>> THEN <<>> ELSE node_json(Head(nodes)) \o nodes_json(Tail(nodes))

\* serde_json::to_vec of a SkillGraph, the fields in the order of the struct
graph_json(g) ==
    <<"{", "name", ":", g.name, ",", "version", ":", g.version, ",", "description", ":", g.description, ",", "nodes", ":", "[">>
      \o nodes_json(g.nodes)
      \o <<"]", ",", "entry_point", ":", g.entry_point, ",", "outputs", ":">> \o strings_json(g.outputs)
      \o <<",", "permissions", ":">> \o strings_json(g.permissions)
      \o <<",", "proofs", ":", "[">> \o proofs_json(g.proofs) \o <<"]", "}">>

\* SkillGraph::content_hash: the hash of serde_json::to_vec(self)
content_hash(g) == graph_json(g)

\* slice::contains
Contains(seq, x) == \E i \in DOMAIN seq : seq[i] = x

\* The ids of the nodes of a skill graph
skill_ids(g) == {g.nodes[i].id : i \in DOMAIN g.nodes}

\* SkillVerifier::find_cycle, "Build adjacency list": an edge from every
\* input that names a node to the node that lists it
skill_adj(g) ==
    UNION {{<<g.nodes[i].inputs[k], g.nodes[i].id>> : k \in {k \in DOMAIN g.nodes[i].inputs : g.nodes[i].inputs[k] \in skill_ids(g)}} : i \in DOMAIN g.nodes}

\* The adjacency list of one node id: the nodes that list it as an input, in
\* the order of the nodes, once for every time they list it
RECURSIVE dependents(_, _)
dependents(nodes, id) ==
    IF nodes = <<>> THEN <<>>
    ELSE LET uses == SelectSeq(Head(nodes).inputs, LAMBDA x : x = id)
         IN  [k \in 1..Len(uses) |-> Head(nodes).id] \o dependents(Tail(nodes), id)

adj_list(g) == [id \in skill_ids(g) |-> dependents(g.nodes, id)]

\* path.iter().position(|n| n == neighbor).unwrap_or(0), counted from 1
path_position(path, n) ==
    IF \E i \in DOMAIN path : path[i] = n
    THEN CHOOSE i \in DOMAIN path : path[i] = n /\ \A j \in 1..(i - 1) : path[j] # n
    ELSE 1

\* SkillVerifier::dfs_cycle on the state (visited, rec_stack, path) of the
\* search; found and cycle are what it returns
RECURSIVE dfs_cycle(_, _, _)
RECURSIVE dfs_neighbors(_, _, _)

\* dfs_cycle that keeps a node on the recursion stack when it returns
dfs_cycle_NoUnwind(node, adjacency, st) ==
    LET entered == [st EXCEPT !.visited = @ \cup {node},
                              !.rec_stack = @ \cup {node},
                              !.path = Append(@, node)]
    IN  dfs_neighbors(IF node \in DOMAIN adjacency THEN adjacency[node] ELSE <<>>, adjacency, entered)

dfs_cycle(node, adjacency, st) ==
    LET entered == [st EXCEPT !.visited = @ \cup {node},
                              !.rec_stack = @ \cup {node},
                              !.path = Append(@, node)]
        after == dfs_neighbors(IF node \in DOMAIN adjacency THEN adjacency[node] ELSE <<>>, adjacency, entered)
    IN  IF after.found THEN after
        ELSE [after EXCEPT !.rec_stack = @ \ {node},
                           !.path = SubSeq(@, 1, Len(@) - 1)]

\* the loop of dfs_cycle over the neighbors of a node
dfs_neighbors(neighbors, adjacency, st) ==
    IF neighbors = <<>> THEN st
    ELSE IF Head(neighbors) \notin st.visited
    THEN LET r == dfs_cycle(Head(neighbors), adjacency, st)
         IN  IF r.found THEN r ELSE dfs_neighbors(Tail(neighbors), adjacency, r)
    ELSE IF Head(neighbors) \in st.rec_stack
    THEN [st EXCEPT !.found = TRUE,
                    !.cycle = SubSeq(st.path, path_position(st.path, Head(neighbors)), Len(st.path))]
    ELSE dfs_neighbors(Tail(neighbors), adjacency, st)

\* the loop of find_cycle over the nodes of the graph
RECURSIVE find_cycle_from(_, _, _)
find_cycle_from(nodes, adjacency, st) ==
    IF nodes = <<>> THEN st
    ELSE IF Head(nodes).id \in st.visited THEN find_cycle_from(Tail(nodes), adjacency, st)
    ELSE LET r == dfs_cycle(Head(nodes).id, adjacency, st)
         IN  IF r.found THEN r ELSE find_cycle_from(Tail(nodes), adjacency, r)

\* SkillVerifier::find_cycle: Some(cycle) as <<cycle>>, None as <<>>
find_cycle(g) ==
    LET r == find_cycle_from(g.nodes, adj_list(g),
                             [visited |-> {}, rec_stack |-> {}, path |-> <<>>,
                              found |-> FALSE, cycle |-> <<>>])
    IN  IF r.found THEN <<r.cycle>> ELSE <<>>

\* VerificationError: the variant and its fields
VerificationError(kind, fields) == [kind |-> kind, fields |-> fields]

\* SkillVerifier::check_node_safety: the errors of one node
check_node_safety(node, declared_permissions) ==
    LET is_network_call == starts_with(node.uri, "http://") \/ starts_with(node.uri, "https://")
    IN  IF node.kind = "External" /\ is_network_call /\ ~Contains(declared_permissions, "network")
        THEN <<VerificationError("MissingPermission", <<"network", "external call to " \o node.uri>>)>>
        ELSE IF node.kind = "Operation" /\ node.op \in {"HttpGet", "HttpPost"}
                /\ ~Contains(declared_permissions, "network")
        THEN <<VerificationError("MissingPermission", <<"network", "HTTP operation at " \o node.id>>)>>
        ELSE <<>>

RECURSIVE node_safety_errors(_, _)
node_safety_errors(nodes, declared_permissions) ==
    IF nodes = <<>> THEN <<>>
    ELSE check_node_safety(Head(nodes), declared_permissions) \o node_safety_errors(Tail(nodes), declared_permissions)

\* verify_with_graph, "Validate references": the errors of one node
RECURSIVE reference_errors_of(_, _, _)
reference_errors_of(id, inputs, ids) ==
    IF inputs = <<>> THEN <<>>
    ELSE (IF Head(inputs) \in ids THEN <<>>
          ELSE <<VerificationError("InvalidReference", <<id, Head(inputs)>>)>>)
         \o reference_errors_of(id, Tail(inputs), ids)

RECURSIVE reference_errors(_, _)
reference_errors(nodes, ids) ==
    IF nodes = <<>> THEN <<>>
    ELSE reference_errors_of(Head(nodes).id, Head(nodes).inputs, ids) \o reference_errors(Tail(nodes), ids)

StepsCap == 1000000    \* estimate_max_steps: .min(1_000_000)

\* SkillVerifier::estimate_max_steps; the saturating products are cut at
\* the cap they are cut at in the end
RECURSIVE loop_multiplier(_)
loop_multiplier(nodes) ==
    IF nodes = <<>> THEN 1
    ELSE LET rest == loop_multiplier(Tail(nodes))
         IN  IF Head(nodes).kind = "Operation" /\ Head(nodes).op \in {"Map", "Filter", "Reduce"}
             THEN (IF rest >= StepsCap \div 100 THEN StepsCap ELSE rest * 100)
             ELSE rest

estimate_max_steps(g) ==
    LET base == Len(g.nodes) * 10
        multiplier == loop_multiplier(g.nodes)
    IN  IF multiplier >= StepsCap \/ base * multiplier >= StepsCap THEN StepsCap
        ELSE base * multiplier

\* SkillVerifier::prove_halting: false only when the body of a Map or the
\* predicate of a Filter is not proven to halt
RECURSIVE prove_halting(_)
prove_halting(g) ==
    \A i \in DOMAIN g.nodes :
        (g.nodes[i].kind = "Operation" /\ g.nodes[i].op \in {"Map", "Filter"})
            => prove_halting(g.nodes[i].body[1])

\* SkillVerifier::build_safety_proof
build_safety_proof(g) ==
    [max_steps |-> estimate_max_steps(g),
     fuel_budget |-> estimate_max_steps(g) * 10,
     halting_proven |-> prove_halting(g)]

\* SkillVerifier::verify_with_graph: safe, the errors in the order found,
\* and the proof (Some(proof) as <<proof>>)
verify_with_graph(g) ==
    IF g.nodes = <<>>
    THEN [safe |-> FALSE, errors |-> <<VerificationError("EmptyGraph", <<>>)>>, proof |-> <<>>]
    ELSE LET cycle == find_cycle(g)
             errors == (IF g.outputs = <<>> THEN <<VerificationError("NoOutputs", <<>>)>> ELSE <<>>)
                         \o (IF cycle # <<>> THEN <<VerificationError("InfiniteLoop", cycle[1])>> ELSE <<>>)
                         \o node_safety_errors(g.nodes, g.permissions)
                         \o reference_errors(g.nodes, skill_ids(g))
         IN  [safe |-> errors = <<>>,
              errors |-> errors,
              proof |-> IF errors = <<>> THEN <<build_safety_proof(g)>> ELSE <<>>]

\* [String]::join(sep)
RECURSIVE join(_, _)
join(strs, sep) ==
    IF strs = <<>> THEN ""
    ELSE IF Len(strs) = 1 THEN Head(strs)
    ELSE Head(strs) \o sep \o join(Tail(strs), sep)

RECURSIVE quoted(_)
quoted(strs) ==
    IF strs = <<>> THEN <<>> ELSE <<"\"" \o Head(strs) \o "\"">> \o quoted(Tail(strs))

\* Display for VerificationError
error_display(e) ==
    CASE e.kind = "InfiniteLoop" -> "Infinite loop detected: [" \o join(quoted(e.fields), ", ") \o "]"
      [] e.kind = "InvalidReference" ->
            "Invalid reference from '" \o e.fields[1] \o "' to '" \o e.fields[2] \o "'"
      [] e.kind = "MissingPermission" ->
            "Missing permission '" \o e.fields[1] \o "' for operation '" \o e.fields[2] \o "'"
      [] e.kind = "NoOutputs" -> "Graph has no outputs defined"
      [] e.kind = "EmptyGraph" -> "Graph is empty"

\* errors.iter().map(|e| e.to_string())
RECURSIVE error_strings(_)
error_strings(errors) ==
    IF errors = <<>> THEN <<>> ELSE <<error_display(Head(errors))>> \o error_strings(Tail(errors))

\* SkillRegistry::extract_metadata
RECURSIVE input_names(_)
input_names(nodes) ==
    IF nodes = <<>> THEN <<>>
    ELSE (IF Head(nodes).kind = "Input" THEN <<Head(nodes).id>> ELSE <<>>) \o input_names(Tail(nodes))

extract_metadata(g, name) ==
    [name |-> name,
     description |-> IF g.description = "null" THEN "No description" ELSE g.description,
     version |-> g.version,
     inputs |-> input_names(g.nodes),
     outputs |-> g.outputs,
     permissions |-> g.permissions]

RegOk(ss, ni, hash) == [skills |-> ss, name_index |-> ni, ok |-> TRUE, ret |-> hash, error |-> ""]
RegErr(ss, ni, error) == [skills |-> ss, name_index |-> ni, ok |-> FALSE, ret |-> <<>>, error |-> error]

\* install_graph without the early return for a hash that is present
install_graph_NoPresentCheck(ss, ni, name, g, builtin, t) ==
    LET hash == content_hash(g)
        verification == verify_with_graph(g)
        entry == [hash |-> hash,
                  metadata |-> extract_metadata(g, name),
                  graph |-> g,
                  verified |-> TRUE,
                  builtin |-> builtin,
                  installed_at |-> t]
    IN  IF ~builtin /\ ~verification.safe
        THEN RegErr(ss, ni, "VerificationFailed: " \o join(error_strings(verification.errors), "; "))
        ELSE IF name \in DOMAIN ni /\ ni[name] # hash
        THEN RegErr(ss, ni, "AlreadyInstalled: " \o name)
        ELSE RegOk(MapPut(ss, hash, entry), MapPut(ni, name, hash), hash)

\* install_graph that records the verifier's verdict instead of rejecting
install_graph_KeepUnverified(ss, ni, name, g, builtin, t) ==
    LET hash == content_hash(g)
        verification == verify_with_graph(g)
        entry == [hash |-> hash,
                  metadata |-> extract_metadata(g, name),
                  graph |-> g,
                  verified |-> verification.safe,
                  builtin |-> builtin,
                  installed_at |-> t]
    IN  IF hash \in DOMAIN ss THEN RegOk(ss, ni, hash)
        ELSE IF name \in DOMAIN ni /\ ni[name] # hash
        THEN RegErr(ss, ni, "AlreadyInstalled: " \o name)
        ELSE RegOk(MapPut(ss, hash, entry), MapPut(ni, name, hash), hash)

\* install_graph that inserts the entry before it looks for a name conflict
install_graph_InsertBeforeNameCheck(ss, ni, name, g, builtin, t) ==
    LET hash == content_hash(g)
        verification == verify_with_graph(g)
        entry == [hash |-> hash,
                  metadata |-> extract_metadata(g, name),
                  graph |-> g,
                  verified |-> TRUE,
                  builtin |-> builtin,
                  installed_at |-> t]
    IN  IF hash \in DOMAIN ss THEN RegOk(ss, ni, hash)
        ELSE IF ~builtin /\ ~verification.safe
        THEN RegErr(ss, ni, "VerificationFailed: " \o join(error_strings(verification.errors), "; "))
        ELSE IF name \in DOMAIN ni /\ ni[name] # hash
        THEN RegErr(MapPut(ss, hash, entry), ni, "AlreadyInstalled: " \o name)
        ELSE RegOk(MapPut(ss, hash, entry), MapPut(ni, name, hash), hash)

\* SkillRegistry::install_graph
install_graph(ss, ni, name, g, builtin, t) ==
    LET hash == content_hash(g)
        verification == verify_with_graph(g)
        entry == [hash |-> hash,
                  metadata |-> extract_metadata(g, name),
                  graph |-> g,
                  verified |-> TRUE,
                  builtin |-> builtin,
                  installed_at |-> t]
    IN  IF hash \in DOMAIN ss THEN RegOk(ss, ni, hash)
        ELSE IF ~builtin /\ ~verification.safe
        THEN RegErr(ss, ni, "VerificationFailed: " \o join(error_strings(verification.errors), "; "))
        ELSE IF name \in DOMAIN ni /\ ni[name] # hash
        THEN RegErr(ss, ni, "AlreadyInstalled: " \o name)
        ELSE RegOk(MapPut(ss, hash, entry), MapPut(ni, name, hash), hash)

\* uninstall without the check for built-in skills
uninstall_NoBuiltinCheck(ss, ni, hash) ==
    IF hash \in DOMAIN ss
    THEN RegOk(MapRemove(ss, hash),
               IF ss[hash].metadata.name \in DOMAIN ni THEN MapRemove(ni, ss[hash].metadata.name) ELSE ni,
               <<>>)
    ELSE RegErr(ss, ni, "NotFound: hash")

\* uninstall that leaves the name of the removed skill in the index
uninstall_KeepName(ss, ni, hash) ==
    IF hash \in DOMAIN ss
    THEN IF ss[hash].builtin
         THEN RegErr(ss, ni, "VerificationFailed: Cannot uninstall built-in skills")
         ELSE RegOk(MapRemove(ss, hash), ni, <<>>)
    ELSE RegErr(ss, ni, "NotFound: hash")

\* SkillRegistry::uninstall
uninstall(ss, ni, hash) ==
    IF hash \in DOMAIN ss
    THEN IF ss[hash].builtin
         THEN RegErr(ss, ni, "VerificationFailed: Cannot uninstall built-in skills")
         ELSE RegOk(MapRemove(ss, hash),
                    IF ss[hash].metadata.name \in DOMAIN ni THEN MapRemove(ni, ss[hash].metadata.name) ELSE ni,
                    <<>>)
    ELSE RegErr(ss, ni, "NotFound: hash")

\* SkillRegistry::uninstall_by_name
uninstall_by_name(ss, ni, name) ==
    IF name \in DOMAIN ni THEN uninstall(ss, ni, ni[name])
    ELSE RegErr(ss, ni, "NotFound: " \o name)

\* SkillRegistry::is_installed, ::is_installed_by_name, ::get_by_name, ::count
is_installed(ss, hash) == hash \in DOMAIN ss
is_installed_by_name(ni, name) == name \in DOMAIN ni
NoEntry == [hash |-> <<>>]
get_by_name(ss, ni, name) ==
    IF name \in DOMAIN ni /\ ni[name] \in DOMAIN ss THEN ss[ni[name]] ELSE NoEntry
count(ss) == Cardinality(DOMAIN ss)

(***************************************************************************)
(* The registry on its own: any sequence of install_graph, uninstall and   *)
(* uninstall_by_name calls.  load_builtin is four install_graph calls.     *)
(***************************************************************************)
RegNames == {"echo", "fetch"}

\* The graphs handed to install_graph: two that pass the verifier (the
\* second declares the permission its HttpGet needs) and three that do not:
\* an empty graph, an HttpGet without the permission, and a cycle.
SkillEcho ==
    SkillGraph("echo", "Echo", <<InputNode("x", "string"), OperationNode("out", "Identity", <<"x">>)>>, <<>>)
SkillFetch ==
    SkillGraph("fetch", "null", <<InputNode("url", "string"), OperationNode("get", "HttpGet", <<"url">>)>>, <<"network">>)
SkillEmpty ==
    SkillGraph("test", "Test skill", <<>>, <<>>)
SkillFetchUndeclared ==
    SkillGraph("fetch", "null", <<InputNode("url", "string"), OperationNode("get", "HttpGet", <<"url">>)>>, <<>>)
SkillLoop ==
    SkillGraph("loop", "null", <<OperationNode("a", "Identity", <<"b">>), OperationNode("b", "Identity", <<"a">>)>>, <<>>)

RegGraphs == {SkillEcho, SkillFetch, SkillEmpty, SkillFetchUndeclared, SkillLoop}

regOtherVars == <<gwVars, proofVars, topoVars, sm_call, routerVars, pureVars>>

\* A registry call returns: the maps, and the history of the call
RegReturn(op, name, hash, builtin, r) ==
    /\ skills' = r.skills
    /\ name_index' = r.name_index
    /\ reg_prev' = [skills |-> skills, name_index |-> name_index]
    /\ reg_call' = [op |-> op, name |-> name, hash |-> hash, builtin |-> builtin, ok |-> r.ok, error |-> r.error, ret |-> r.ret]

RegInstallGraph ==
    /\ \E name \in RegNames, g \in RegGraphs, builtin \in BOOLEAN :
          RegReturn("install_graph", name, content_hash(g), builtin, install_graph(skills, name_index, name, g, builtin, now))
    /\ UNCHANGED regOtherVars

RegUninstall ==
    /\ \E g \in RegGraphs :
          RegReturn("uninstall", "", content_hash(g), FALSE, uninstall(skills, name_index, content_hash(g)))
    /\ UNCHANGED regOtherVars

RegUninstallByName ==
    /\ \E name \in RegNames :
          RegReturn("uninstall_by_name", name, <<>>, FALSE, uninstall_by_name(skills, name_index, name))
    /\ UNCHANGED regOtherVars

RegNext ==
    \/ RegInstallGraph
    \/ RegUninstall
    \/ RegUninstallByName

SpecRegistry == Init /\ [][RegNext]_vars

\* C11: after install_graph(name, graph, builtin) returns Ok(hash) the skill
\* is installed under both keys: is_installed(hash) and
\* is_installed_by_name(name) hold, and get_by_name(name) returns the entry
\* whose hash is the returned hash.
InstalledUnderBothKeys ==
    (reg_call.op = "install_graph" /\ reg_call.ok) =>
        /\ is_installed(skills, reg_call.ret)
        /\ is_installed_by_name(name_index, reg_call.name)
        /\ get_by_name(skills, name_index, reg_call.name).hash = reg_call.ret

\* C12: install_graph is idempotent on content: installing a graph whose
\* content hash is already present returns that hash and leaves the number
\* of installed skills unchanged.
InstallIdempotentOnContent ==
    (reg_call.op = "install_graph" /\ reg_call.hash \in DOMAIN reg_prev.skills) =>
        /\ reg_call.ok
        /\ reg_call.ret = reg_call.hash
        /\ count(skills) = count(reg_prev.skills)

\* A graph installed as a built-in that the verifier rejects has been
\* installed again, not as a built-in and under another name.
ReinstalledPresentContent ==
    /\ reg_call.op = "install_graph"
    /\ reg_call.hash \in DOMAIN reg_prev.skills
    /\ ~reg_call.builtin
    /\ ~verify_with_graph(reg_prev.skills[reg_call.hash].graph).safe
    /\ reg_prev.skills[reg_call.hash].metadata.name # reg_call.name
    /\ reg_call.ok

\* C13: every installed skill is verified or built-in.
InstalledVerifiedOrBuiltin ==
    \A h \in DOMAIN skills : skills[h].verified = TRUE \/ skills[h].builtin = TRUE

\* install_graph has refused a graph the verifier rejects, beside an
\* installed skill that is not built-in.
UnsafeGraphRefused ==
    /\ reg_call.op = "install_graph"
    /\ ~reg_call.ok
    /\ ~reg_call.builtin
    /\ reg_call.hash \notin DOMAIN skills
    /\ reg_call.name \notin DOMAIN name_index
    /\ \E h \in DOMAIN skills : ~skills[h].builtin

\* The hash the last uninstall or uninstall_by_name call was about
UninstallTarget ==
    IF reg_call.op = "uninstall" THEN reg_call.hash
    ELSE IF reg_call.op = "uninstall_by_name" /\ reg_call.name \in DOMAIN reg_prev.name_index
    THEN reg_prev.name_index[reg_call.name]
    ELSE <<>>

\* C14: uninstall and uninstall_by_name refuse a built-in skill, and a
\* built-in skill stays installed under its hash and its name over every
\* registry call.
BuiltinStaysInstalled ==
    /\ \A h \in DOMAIN reg_prev.skills : reg_prev.skills[h].builtin =>
          /\ is_installed(skills, h)
          /\ skills[h] = reg_prev.skills[h]
          /\ is_installed_by_name(name_index, skills[h].metadata.name)
          /\ get_by_name(skills, name_index, skills[h].metadata.name).hash = h
    /\ (/\ reg_call.op \in {"uninstall", "uninstall_by_name"}
        /\ UninstallTarget \in DOMAIN reg_prev.skills
        /\ reg_prev.skills[UninstallTarget].builtin) => ~reg_call.ok

\* uninstall_by_name has refused to uninstall a built-in skill.
BuiltinUninstallRefused ==
    /\ reg_call.op = "uninstall_by_name"
    /\ UninstallTarget \in DOMAIN skills
    /\ skills[UninstallTarget].builtin
    /\ reg_call.error = "VerificationFailed: Cannot uninstall built-in skills"

\* C38: after any sequence of install_graph, uninstall and
\* uninstall_by_name calls the name index and the skill map agree: every
\* name in the index maps to a hash that is installed, and every installed
\* skill is reachable through the name recorded in its metadata.
NameIndexAgreesWithSkills ==
    /\ \A name \in DOMAIN name_index : is_installed(skills, name_index[name])
    /\ \A h \in DOMAIN skills :
          /\ is_installed_by_name(name_index, skills[h].metadata.name)
          /\ get_by_name(skills, name_index, skills[h].metadata.name).hash = h

\* One of two installed skills has been uninstalled by its hash; the other
\* one is still installed under its name.
UninstalledOneOfTwo ==
    /\ reg_call.op = "uninstall"
    /\ reg_call.ok
    /\ count(reg_prev.skills) = 2
    /\ count(skills) = 1
    /\ Cardinality(DOMAIN name_index) = 1

\* C39: an install_graph call that fails, with VerificationFailed or with
\* AlreadyInstalled, leaves the registry exactly as it was before the call:
\* no entry and no name mapping is added, changed or removed.
FailedInstallChangesNothing ==
    (reg_call.op = "install_graph" /\ ~reg_call.ok) =>
        /\ skills = reg_prev.skills
        /\ name_index = reg_prev.name_index

\* install_graph has refused, with AlreadyInstalled, a graph the verifier
\* accepts whose name is the name of another installed skill.
NameConflictRefused ==
    /\ reg_call.op = "install_graph"
    /\ ~reg_call.ok
    /\ starts_with(reg_call.error, "AlreadyInstalled")
    /\ reg_call.hash \notin DOMAIN skills
    /\ reg_call.name \in DOMAIN name_index
    /\ name_index[reg_call.name] \in DOMAIN skills

(***************************************************************************)
(* The router (gateway/router.rs) with a routing graph of the shape of     *)
(* build_default_graph, the conditions of its Route node being those of    *)
(* the graph the router was built with.  Confidences are in millionths.    *)
(***************************************************************************)
\* Value::Bool, Value::Array (of strings) and the Value::Map a Route node
\* returns
Bool(b) == [type |-> "Bool", b |-> b]
Array(items) == [type |-> "Array", items |-> items]
RouteMap(target, confidence, matched_input) ==
    [type |-> "Map", target |-> target, confidence |-> confidence, matched_input |-> matched_input]

\* Value::is_truthy
is_truthy(v) ==
    CASE v.type = "Null" -> FALSE
      [] v.type = "Bool" -> v.b
      [] v.type = "String" -> v.s # ""
      [] v.type = "Array" -> v.items # <<>>
      [] v.type = "Map" -> TRUE

\* str::split_whitespace
RECURSIVE split_whitespace(_)
split_whitespace(s) ==
    LET t == skip_spaces(s)
        w == take_word(t)
    IN  IF t = "" THEN <<>>
        ELSE <<w>> \o split_whitespace(SubSeq(t, Len(w) + 1, Len(t)))

\* GraphInterpreter::execute_route: the value of the Route node and the
\* context's confidence after it
RECURSIVE execute_route(_, _, _)
execute_route(conditions, node_values, confidence) ==
    IF conditions = <<>> THEN [value |-> Null, confidence |-> confidence]
    ELSE LET condition == Head(conditions)
             input_value == IF condition.input \in DOMAIN node_values THEN node_values[condition.input] ELSE Null
             matches == IF condition.match_value # <<>>
                        THEN input_value.type = "String" /\ input_value.s = condition.match_value[1]
                        ELSE IF condition.threshold > 0 THEN is_truthy(input_value)
                        ELSE TRUE
         IN  IF matches
             THEN [value |-> RouteMap(condition.target, condition.confidence, condition.input),
                   confidence |-> (confidence \div 1000) * (condition.confidence \div 1000)]
             ELSE execute_route(Tail(conditions), node_values, confidence)

\* GraphInterpreter::execute on the routing graph with the inputs route
\* builds: the values of the nodes the Route node can read, the outputs
\* and the confidence (ExecutionContext::new starts it at 1.0)
execute_routing_graph(conditions, message) ==
    LET content == message.content
        is_command == Bool(starts_with(content, "/"))
        node_values == [message |-> String(content),
                        sender |-> String(message.sender_id),
                        channel |-> String(message.channel_id),
                        is_command |-> is_command,
                        command_name |-> String(first_word(content)),
                        command_lookup |-> String(command_lookup(first_word(content))),
                        conversation_skill |-> String(conversation_skill(content))]
        decision == execute_route(conditions, node_values, Micro)
        words == split_whitespace(content)
    IN  [outputs |-> [skill_target |-> IF is_truthy(is_command) THEN node_values.command_lookup ELSE node_values.conversation_skill,
                      params |-> Array(IF words = <<>> THEN <<>> ELSE Tail(words)),
                      route_decision |-> decision.value],
         trace |-> DefaultRouteTrace,
         confidence |-> decision.confidence]

\* Router::extract_route_result, "Get params from outputs"
route_params(arr) ==
    IF arr = <<>> THEN EmptyMap
    ELSE [k \in {"arg" \o ToString(i - 1) : i \in DOMAIN arr} \cup {"args"} |->
             IF k = "args" THEN join(arr, " ")
             ELSE arr[CHOOSE i \in DOMAIN arr : k = "arg" \o ToString(i - 1)]]

\* Router::extract_route_result
extract_route_result(execution, default_skill) ==
    LET outputs == execution.outputs
        route_info == outputs.route_decision
    IN  [skill_hash |-> IF outputs.skill_target.type = "String" THEN outputs.skill_target.s ELSE default_skill,
         confidence |-> IF route_info.type = "Map" THEN route_info.confidence ELSE execution.confidence,
         route_name |-> IF route_info.type = "Map" THEN route_info.matched_input ELSE "graph_route",
         params |-> route_params(outputs.params.items)]

\* Router::route: what it returns and the router afterwards
Router_route(r, message) ==
    LET key == cache_key(message)
        execution == execute_routing_graph(r.conditions, message)
        res == extract_route_result(execution, r.default_skill)
    IN  IF r.caching_enabled /\ key \in DOMAIN r.route_cache
        THEN [result |-> r.route_cache[key], trace |-> ExecutionTrace(<<>>, TRUE),
              decision |-> Null, router |-> r]
        ELSE [result |-> res, trace |-> ExecutionTrace(execution.trace, FALSE),
              decision |-> execution.outputs.route_decision,
              router |-> IF r.caching_enabled THEN [r EXCEPT !.route_cache = MapPut(@, key, res)] ELSE r]

\* Router::set_caching
set_caching(r, enabled) ==
    [r EXCEPT !.caching_enabled = enabled,
              !.route_cache = IF enabled THEN @ ELSE EmptyMap]

\* Router::clear_cache
clear_cache(r) == [r EXCEPT !.route_cache = EmptyMap]

(***************************************************************************)
(* The router on its own: any sequence of route, clear_cache and           *)
(* set_caching calls on a router built with one of three routing graphs.   *)
(***************************************************************************)
RouterChannels == {"tg", "irc"}
RouterContents == {"/help", "/help me", "/search a", "hello"}

\* A Route node with the command condition alone, and one with an exact
\* match on the command name
CommandOnlyConditions == <<DefaultConditions[1]>>
HelpOnlyConditions == <<RouteCondition("command_name", <<"/help">>, 0, "command_lookup", Micro)>>

RouterGraphs == {DefaultConditions, CommandOnlyConditions, HelpOnlyConditions}

routerOtherVars == <<gwVars, proofVars, topoVars, regVars, sm_call, pureVars>>

RouterInit ==
    /\ GatewayIdle
    /\ ProofIdle
    /\ TopoIdle
    /\ RegistryIdle
    /\ sm_call = NoSmCall
    /\ router \in {NewRouter(conditions) : conditions \in RouterGraphs}
    /\ routed = EmptyMap
    /\ route_ret = NoRouteRet
    /\ PureIdle

\* route(message); the history keeps, for each command routed with caching
\* enabled since the last clear, the first message that carried it
RouterRoute ==
    /\ \E c \in RouterChannels, u \in Users, body \in RouterContents :
          LET m == NewMessage(0, c, u, body, now)
              r == Router_route(router, m)
              command == first_word(body)
          IN  /\ router' = r.router
              /\ route_ret' = [op |-> "route", message |-> m, result |-> r.result, trace |-> r.trace,
                               decision |-> r.decision, caching |-> router.caching_enabled,
                               seen |-> command \in DOMAIN routed]
              /\ routed' = IF router.caching_enabled /\ starts_with(body, "/") /\ command \notin DOMAIN routed
                           THEN MapPut(routed, command, m)
                           ELSE routed
    /\ UNCHANGED routerOtherVars

RouterClearCache ==
    /\ router' = clear_cache(router)
    /\ routed' = EmptyMap
    /\ route_ret' = [op |-> "clear_cache"]
    /\ UNCHANGED routerOtherVars

\* set_caching(enabled); disabling clears the cache
RouterSetCaching ==
    /\ \E enabled \in BOOLEAN :
          /\ router' = set_caching(router, enabled)
          /\ routed' = IF enabled THEN routed ELSE EmptyMap
    /\ route_ret' = [op |-> "set_caching"]
    /\ UNCHANGED routerOtherVars

RouterNext ==
    \/ RouterRoute
    \/ RouterClearCache
    \/ RouterSetCaching

SpecRouter == RouterInit /\ [][RouterNext]_vars

\* C15: with caching enabled, a route call for a message whose content
\* starts with "/" returns trace.cached = true exactly when an earlier
\* route call (with caching enabled) since the cache was last cleared had
\* the same first whitespace-delimited token, whatever the sender, the
\* channel and the remaining arguments.
CachedIffCommandRouted ==
    (/\ route_ret.op = "route"
     /\ route_ret.caching
     /\ starts_with(route_ret.message.content, "/")) =>
        (route_ret.trace.cached <=> route_ret.seen)

\* A route call was answered from the cache entry that a message of
\* another sender, on another channel and with other arguments had left.
CachedAcrossSenders ==
    /\ route_ret.op = "route"
    /\ route_ret.trace.cached
    /\ \E command \in DOMAIN routed :
          /\ command = first_word(route_ret.message.content)
          /\ routed[command].sender_id # route_ret.message.sender_id
          /\ routed[command].channel_id # route_ret.message.channel_id
          /\ routed[command].content # route_ret.message.content

\* C16: when no Route condition matches during routing, the router falls
\* back to the default skill with confidence 0.5.
NoMatchFallsBackToDefault ==
    (/\ route_ret.op = "route"
     /\ ~route_ret.trace.cached
     /\ route_ret.decision = Null) =>
        /\ route_ret.result.skill_hash = router.default_skill
        /\ route_ret.result.confidence = Micro \div 2

\* What route returns for the message with caching disabled
route_uncached(r, message) ==
    Router_route(set_caching(r, FALSE), message).result

\* C36: with caching enabled, the RouteResult returned from the cache for a
\* message (skill_hash, confidence, route_name and params) equals the
\* RouteResult that routing the same message with caching disabled would
\* return.
CachedResultEqualsUncached ==
    (/\ route_ret.op = "route"
     /\ route_ret.caching
     /\ route_ret.trace.cached) =>
        route_ret.result = route_uncached(router, route_ret.message)

\* The skill, the confidence and the route name a cache hit returns are
\* those of the uncached routing of the message; the arguments are not
\* part of the cache key, the params are the part that can differ.
CachedTargetEqualsUncached ==
    (/\ route_ret.op = "route"
     /\ route_ret.caching
     /\ route_ret.trace.cached) =>
        LET fresh == route_uncached(router, route_ret.message)
        IN  /\ route_ret.result.skill_hash = fresh.skill_hash
            /\ route_ret.result.confidence = fresh.confidence
            /\ route_ret.result.route_name = fresh.route_name

(***************************************************************************)
(* Session manager: the contracts of get_or_create, update, the trust      *)
(* score and expiry.                                                       *)
(***************************************************************************)
\* What the last get_or_create call did: it returned the session the index
\* held for the pair when that session had not expired, and otherwise a new
\* session that it inserted and indexed.
ReturnsExistingElseCreates ==
    sm_call.op = "get_or_create" =>
        IF sm_call.indexed /\ ~is_expired(sm_call.before, TimeoutSeconds, sm_call.t)
        THEN /\ sm_call.ret.id = sm_call.before.id
             /\ sm_call.ret.history = sm_call.before.history
             /\ sm_call.ret.trust_score = sm_call.before.trust_score
        ELSE /\ sm_call.ret.created_at = sm_call.t
             /\ sm_call.ret.history = <<>>
             /\ sm_call.ret.id \in DOMAIN sessions
             /\ sessions[sm_call.ret.id] = sm_call.ret
             /\ sm_call.key \in DOMAIN user_sessions
             /\ user_sessions[sm_call.key] = sm_call.ret.id

\* The sessions indexed for two different (channel, user) pairs are two
\* sessions.
DifferentPairsDifferentSessions ==
    \A k1 \in DOMAIN user_sessions, k2 \in DOMAIN user_sessions :
        k1 # k2 => user_sessions[k1] # user_sessions[k2]

\* C17: get_or_create(channel, user) returns the existing session (same id,
\* history and trust) when the pair is indexed and the session has not
\* expired, and otherwise creates, inserts and indexes a new session; calls
\* for different channels or users yield different sessions.
GetOrCreateContract ==
    /\ ReturnsExistingElseCreates
    /\ DifferentPairsDifferentSessions

\* C18: update(session_id, pca) on an existing session appends exactly
\* pca.input_hash to the session's history, increments the state version by
\* one, sets the state hash to the hash of the new version, and sets
\* last_activity to the time of the call.
UpdateContract ==
    sm_call.op = "update" =>
        /\ sm_call.id \in DOMAIN sessions
        /\ sessions[sm_call.id].history = Append(sm_call.before.history, sm_call.input_hash)
        /\ sessions[sm_call.id].version = sm_call.before.version + 1
        /\ sessions[sm_call.id].state_hash = version_hash(sm_call.before.version + 1)
        /\ sessions[sm_call.id].last_activity = sm_call.t

\* A session updated a second time, later than the first and with another
\* input hash
UpdatedAgainLater ==
    /\ sm_call.op = "update"
    /\ sm_call.before.history # <<>>
    /\ sm_call.before.history[1] # sm_call.input_hash
    /\ sm_call.t > sm_call.before.last_activity
    /\ sessions[sm_call.id].version = 2

\* t_i of a session whose trust was t_0 = trust before the updates of the
\* log: t_i = 0.9 * t_(i-1) + 0.1 * c_i, clamped to [0, 1].
RECURSIVE TrustSeries(_, _)
TrustSeries(trust, log) ==
    IF log = <<>> THEN trust
    ELSE LET t_i == (9 * trust + Head(log).confidence) \div 10
         IN  TrustSeries(IF t_i < 0 THEN 0 ELSE IF t_i > Micro THEN Micro ELSE t_i,
                         Tail(log))

\* C19: with t_0 the initial trust of a session and c_i the confidence of
\* the i-th action applied to it, the trust after update i is
\* t_i = 0.9 * t_(i-1) + 0.1 * c_i, clamped to [0, 1].
TrustFollowsEmaSeries ==
    \A id \in DOMAIN sessions :
        /\ id \in DOMAIN updLog
        /\ sessions[id].trust_score = TrustSeries(InitialTrust, updLog[id])
        /\ sessions[id].trust_score >= 0
        /\ sessions[id].trust_score <= Micro

\* A session updated by two actions of different confidence
TwoConfidencesApplied ==
    \E id \in DOMAIN sessions :
        /\ Len(updLog[id]) = 2
        /\ updLog[id][1].confidence # updLog[id][2].confidence
        /\ sessions[id].trust_score # InitialTrust

\* C20: a session is expired exactly when
\* now_ms - last_activity_ms > timeout_s * 1000.
ExpiredExactlyPastTimeout ==
    \A id \in DOMAIN sessions :
        is_expired(sessions[id], TimeoutSeconds, now)
            <=> (now - sessions[id].last_activity > TimeoutSeconds * MsPerSecond)

\* C20, amended: a session is expired exactly when the whole seconds
\* elapsed since its last activity exceed the timeout, that is when
\* now_ms - last_activity_ms >= (timeout_s + 1) * 1000; get_or_create returns
\* the session indexed for a pair exactly when it is not expired so.
ExpiredPastWholeSeconds ==
    /\ \A id \in DOMAIN sessions :
          is_expired(sessions[id], TimeoutSeconds, now)
              <=> (now - sessions[id].last_activity >= (TimeoutSeconds + 1) * MsPerSecond)
    /\ (sm_call.op = "get_or_create" /\ sm_call.indexed) =>
          (sm_call.ret.id = sm_call.before.id
              <=> (sm_call.t - sm_call.before.last_activity < (TimeoutSeconds + 1) * MsPerSecond))

\* get_or_create returned a session whose last activity lies more than the
\* timeout, but less than a second more, in the past
ReturnedWithinTheSecond ==
    /\ sm_call.op = "get_or_create"
    /\ sm_call.indexed
    /\ sm_call.ret.id = sm_call.before.id
    /\ sm_call.t - sm_call.before.last_activity > TimeoutSeconds * MsPerSecond

\* The sessions cleanup_expired had to remove: those idle for more whole
\* seconds than the timeout when it was called.
IdlePastTimeout ==
    {id \in DOMAIN sm_call.sessions :
        (sm_call.t - sm_call.sessions[id].last_activity) \div MsPerSecond > TimeoutSeconds}

\* cleanup_expired removed exactly the sessions idle past the timeout from
\* the session map and returned their number.
CleanupRemovesExpiredSessions ==
    sm_call.op = "cleanup_expired" =>
        /\ DOMAIN sessions = DOMAIN sm_call.sessions \ IdlePastTimeout
        /\ \A id \in DOMAIN sessions : sessions[id] = sm_call.sessions[id]
        /\ sm_call.count = Cardinality(IdlePastTimeout)

\* cleanup_expired removed the index entry of the pair of each session it
\* removed, and no index entry of a session it kept.
CleanupRemovesOwnIndexEntries ==
    sm_call.op = "cleanup_expired" =>
        /\ \A id \in IdlePastTimeout :
              <<sm_call.sessions[id].channel_id, sm_call.sessions[id].user_id>> \notin DOMAIN user_sessions
        /\ \A key \in DOMAIN sm_call.user_sessions :
              sm_call.user_sessions[key] \in DOMAIN sessions
                  => (key \in DOMAIN user_sessions /\ user_sessions[key] = sm_call.user_sessions[key])

\* After cleanup_expired the index names no session that it removed.
CleanupLeavesNoIndexEntry ==
    sm_call.op = "cleanup_expired" =>
        \A key \in DOMAIN user_sessions : user_sessions[key] \notin IdlePastTimeout

\* C21: cleanup_expired removes every session whose idle time exceeds the
\* timeout from both the session map and the (channel, user) index, removes
\* no other session, and returns the number of sessions removed.
CleanupExpiredContract ==
    /\ CleanupRemovesExpiredSessions
    /\ CleanupRemovesOwnIndexEntries
    /\ CleanupLeavesNoIndexEntry

(***************************************************************************)
(* Gateway: the events of expiring sessions.                               *)
(***************************************************************************)
\* The sessions a step discards on expiry: held before the step, expired at
\* the time of the step, and no longer held after it.
DiscardedOnExpiry ==
    {id \in DOMAIN sessions \ DOMAIN sessions' :
        is_expired(sessions[id], TimeoutSeconds, now)}

\* C22: for every session that expires, the event bus publishes exactly one
\* SessionExpired event, whether the session is discarded by the expiry path
\* of get_or_create or by cleanup_expired.
OneSessionExpiredPerExpiry ==
    [][CopiesIn("SessionExpired", published')
          = CopiesIn("SessionExpired", published) + Cardinality(DiscardedOnExpiry)]_vars

\* No SessionExpired event is ever published.
NoSessionExpiredPublished == CopiesIn("SessionExpired", published) = 0

\* Every index entry points to a session the map holds, of that channel
\* and user.
IndexPointsIntoSessions ==
    \A key \in DOMAIN user_sessions :
        /\ user_sessions[key] \in DOMAIN sessions
        /\ sessions[user_sessions[key]].channel_id = key[1]
        /\ sessions[user_sessions[key]].user_id = key[2]

\* Every session the map holds is the one the index entry of its channel
\* and user points to.
SessionsAreIndexed ==
    \A id \in DOMAIN sessions :
        LET key == <<sessions[id].channel_id, sessions[id].user_id>>
        IN  key \in DOMAIN user_sessions /\ user_sessions[key] = id

\* C37: after any sequence of session-manager operations the (channel,
\* user) index and the session map agree: every index entry points to a
\* session that is present in the map and has that channel and user, and
\* every session in the map is the one its (channel, user) index entry
\* points to.
IndexAgreesWithSessions == IndexPointsIntoSessions /\ SessionsAreIndexed

(***************************************************************************)
(* The skill verifier on its own: verify applied to a skill graph.         *)
(***************************************************************************)
VNodeIds == <<"a", "b", "c", "d", "e">>

\* The sets of ids as input lists, in the order of the ids
RECURSIVE InputLists(_)
InputLists(n) ==
    IF n = 0 THEN {<<>>}
    ELSE InputLists(n - 1) \cup {Append(l, VNodeIds[n]) : l \in InputLists(n - 1)}

\* The lists of n Identity nodes with the first n ids, any node listing any
\* of them as inputs
RECURSIVE IdentityNodes(_, _)
IdentityNodes(k, n) ==
    IF k = 0 THEN {<<>>}
    ELSE {Append(nodes, OperationNode(VNodeIds[k], "Identity", inputs)) :
            nodes \in IdentityNodes(k - 1, n), inputs \in InputLists(n)}

\* Graphs of up to max Identity nodes
DependencyGraphs(max) ==
    {SkillGraph("deps", "null", nodes, <<>>) : nodes \in UNION {IdentityNodes(n, n) : n \in 0..max}}

PermissionLists == {<<>>, <<"network">>}

\* The graphs a Map or a Filter can carry, nested up to depth levels: one
\* node that passes its input on, calls HTTP, depends on itself, or maps or
\* filters with a graph of the level below
RECURSIVE BodyGraphs(_)
BodyGraphs(depth) ==
    LET plain == {OperationNode("p", "Identity", <<>>), OperationNode("p", "HttpGet", <<>>),
                  OperationNode("p", "HttpPost", <<>>), OperationNode("p", "Identity", <<"p">>)}
        nested == IF depth = 0 THEN {}
                  ELSE {NestedNode("p", op, body, <<>>) : op \in {"Map", "Filter"}, body \in BodyGraphs(depth - 1)}
    IN  {SkillGraph("body", "null", <<node>>, permissions) :
            node \in plain \cup nested, permissions \in PermissionLists}

\* One-node graphs with bodies nested up to depth levels
NestedGraphs(depth) ==
    LET plain == {OperationNode("a", "Identity", <<>>), OperationNode("a", "HttpGet", <<>>),
                  OperationNode("a", "HttpPost", <<>>)}
        nested == {NestedNode("a", op, body, <<>>) : op \in {"Map", "Filter"}, body \in BodyGraphs(depth - 1)}
    IN  {SkillGraph("nested", "null", <<node>>, permissions) :
            node \in plain \cup nested, permissions \in PermissionLists}

VerifierInit ==
    /\ GatewayIdle
    /\ ProofIdle
    /\ TopoIdle
    /\ RegistryIdle
    /\ sm_call = NoSmCall
    /\ RouterIdle
    /\ StoreIdle
    /\ ComposerIdle
    /\ LateIdle
    /\ verify_graph \in DependencyGraphs(MaxVNodes) \cup NestedGraphs(MaxDepth)
    /\ verify_ret = NoVerification

\* SkillVerifier::verify(&graph): verify_with_graph on a new verifier
Verify ==
    /\ ~verify_ret.called
    /\ verify_ret' = LET r == verify_with_graph(verify_graph)
                     IN  [safe |-> r.safe, errors |-> r.errors, proof |-> r.proof, called |-> TRUE]
    /\ UNCHANGED <<verify_graph, gwVars, proofVars, topoVars, regVars, sm_call, routerVars, storeVars, composerVars, lateVars>>

VerifierNext == Verify

SpecVerifier == VerifierInit /\ [][VerifierNext]_vars

\* A graph holds an HttpGet or HttpPost operation, at top level or inside
\* the body of a Map or the predicate of a Filter
RECURSIVE UsesHttp(_)
UsesHttp(g) ==
    \E i \in DOMAIN g.nodes :
        \/ g.nodes[i].kind = "Operation" /\ g.nodes[i].op \in {"HttpGet", "HttpPost"}
        \/ g.nodes[i].body # <<>> /\ UsesHttp(g.nodes[i].body[1])

\* The same at top level only
UsesHttpAtTop(g) ==
    \E i \in DOMAIN g.nodes :
        g.nodes[i].kind = "Operation" /\ g.nodes[i].op \in {"HttpGet", "HttpPost"}

ReportsError(kind) == \E i \in DOMAIN verify_ret.errors : verify_ret.errors[i].kind = kind

\* C23: verify never returns safe = true for a graph that contains an
\* HttpGet or HttpPost operation, at top level or inside a nested Map body
\* or Filter predicate, unless "network" is among the graph's declared
\* permissions; otherwise it reports MissingPermission.
HttpRequiresNetwork ==
    (verify_ret.called /\ UsesHttp(verify_graph) /\ ~Contains(verify_graph.permissions, "network"))
        => (~verify_ret.safe /\ ReportsError("MissingPermission"))

\* The same for the operations at top level only
HttpAtTopRequiresNetwork ==
    (verify_ret.called /\ UsesHttpAtTop(verify_graph) /\ ~Contains(verify_graph.permissions, "network"))
        => (~verify_ret.safe /\ ReportsError("MissingPermission"))

\* The nodes reached from a set of nodes along the edges E
RECURSIVE ReachedFrom(_, _)
ReachedFrom(E, S) ==
    LET T == S \cup {e[2] : e \in {x \in E : x[1] \in S}}
    IN  IF T = S THEN S ELSE ReachedFrom(E, T)

\* A graph has a dependency cycle: a node that depends on itself through
\* one or more inputs naming nodes of the graph
DependencyCycle(g) ==
    \E e \in skill_adj(g) : e[1] \in ReachedFrom(skill_adj(g), {e[2]})

\* A graph halts: it has no dependency cycle, and neither has the body of a
\* Map or the predicate of a Filter in it, at any depth
RECURSIVE Halts(_)
Halts(g) ==
    /\ ~DependencyCycle(g)
    /\ \A i \in DOMAIN g.nodes : g.nodes[i].body # <<>> => Halts(g.nodes[i].body[1])

\* C24: whenever verify builds a safety proof, halting_proven is true if and
\* only if the graph is acyclic and every nested Map body and Filter
\* predicate subgraph, recursively, also halts.
HaltingProvenIffHalts ==
    (verify_ret.called /\ verify_ret.proof # <<>>)
        => (verify_ret.proof[1].halting_proven <=> Halts(verify_graph))

\* Every safety proof verify builds says that halting is proven.
HaltingAlwaysProven ==
    (verify_ret.called /\ verify_ret.proof # <<>>) => verify_ret.proof[1].halting_proven

\* The cycles of the InfiniteLoop errors verify reported
ReportedCycles ==
    {verify_ret.errors[i].fields : i \in {j \in DOMAIN verify_ret.errors : verify_ret.errors[j].kind = "InfiniteLoop"}}

\* A list of distinct nodes of a graph, each an input of the next and the
\* last an input of the first
ClosedPath(g, cycle) ==
    /\ cycle # <<>>
    /\ \A i, j \in DOMAIN cycle : i # j => cycle[i] # cycle[j]
    /\ \A i \in 1..(Len(cycle) - 1) : <<cycle[i], cycle[i + 1]>> \in skill_adj(g)
    /\ <<cycle[Len(cycle)], cycle[1]>> \in skill_adj(g)

\* C25: verify reports an InfiniteLoop error exactly when the skill graph
\* contains a dependency cycle, and the reported cycle is the slice of the
\* DFS path from the re-entered node onward: a path of the graph that closes
\* on its first node; for a graph with a self-loop a -> a it is ["a"].
InfiniteLoopIffCycle ==
    verify_ret.called =>
        /\ ReportsError("InfiniteLoop") <=> DependencyCycle(verify_graph)
        /\ Cardinality(ReportedCycles) <= 1
        /\ \A cycle \in ReportedCycles : ClosedPath(verify_graph, cycle)
        /\ (Len(verify_graph.nodes) = 1 /\ verify_graph.nodes[1].inputs = <<verify_graph.nodes[1].id>>)
              => ReportedCycles = {<<verify_graph.nodes[1].id>>}

\* verify reported a cycle that starts after the first node of the search
\* path, in a graph of three nodes
CycleStartsMidPath ==
    /\ verify_ret.called
    /\ Len(verify_graph.nodes) = 3
    /\ \E cycle \in ReportedCycles : Len(cycle) = 2 /\ cycle[1] # "a" /\ cycle[2] # "a"

(***************************************************************************)
(* The interpreter's state store (runtime/interpreter.rs) and the state    *)
(* operations LoadState and SaveState (runtime/builtins.rs).               *)
(***************************************************************************)
\* Value::Map with the keys of a session state
StateMap(session_id, trust_score, message_count) ==
    [type |-> "Map", session_id |-> session_id, trust_score |-> trust_score,
     message_count |-> message_count]

\* inputs.first().and_then(|v| v.as_string()).unwrap_or("")
first_as_string(inputs) ==
    IF inputs # <<>> /\ inputs[1].type = "String" THEN inputs[1].s ELSE ""

\* LoadStateOp::execute
LoadStateOp(inputs) == StateMap(first_as_string(inputs), Micro \div 2, 0)

\* SaveStateOp::execute
SaveStateOp(inputs) == IF Len(inputs) >= 2 THEN inputs[2] ELSE Null

\* GraphInterpreter::load_state and ::save_state
load_state(store, session_id) ==
    IF session_id \in DOMAIN store THEN store[session_id] ELSE Null
save_state(store, session_id, state) == MapPut(store, session_id, state)

StoreSessions == {"s1", "s2"}
StoreCounts == {1, 2}
StoreStates == {StateMap(id, 9 * (Micro \div 10), n) : id \in StoreSessions, n \in StoreCounts}

storeOtherVars == <<gwVars, proofVars, topoVars, regVars, sm_call, routerVars, verify_graph, verify_ret, composerVars, lateVars>>

\* A graph node with op SaveState runs on (session id, state)
ExecSaveState ==
    /\ \E id \in StoreSessions, state \in StoreStates :
          /\ store_call' = [op |-> "SaveState", id |-> id, state |-> state,
                            ret |-> SaveStateOp(<<String(id), state>>)]
          /\ saved' = MapPut(saved, id, state)
    /\ UNCHANGED <<state_store, storeOtherVars>>

\* A graph node with op LoadState runs on a session id
ExecLoadState ==
    /\ \E id \in StoreSessions :
          store_call' = [op |-> "LoadState", id |-> id, state |-> Null,
                         ret |-> LoadStateOp(<<String(id)>>)]
    /\ UNCHANGED <<state_store, saved, storeOtherVars>>

\* interp.save_state(session_id, state)
CallSaveState ==
    /\ \E id \in StoreSessions, state \in StoreStates :
          /\ state_store' = save_state(state_store, id, state)
          /\ store_call' = [op |-> "save_state", id |-> id, state |-> state, ret |-> Null]
    /\ UNCHANGED <<saved, storeOtherVars>>

\* interp.load_state(session_id)
CallLoadState ==
    /\ \E id \in StoreSessions :
          store_call' = [op |-> "load_state", id |-> id, state |-> Null,
                         ret |-> load_state(state_store, id)]
    /\ UNCHANGED <<state_store, saved, storeOtherVars>>

StoreNext ==
    \/ ExecSaveState
    \/ ExecLoadState
    \/ CallSaveState
    \/ CallLoadState

SpecStore == Init /\ [][StoreNext]_vars

\* C26: state written by a SaveState operation for a session id is kept in
\* the interpreter's state_store, and a later LoadState operation for the
\* same session id returns the most recently saved value for that id.
SavedStateIsLoaded ==
    /\ store_call.op = "SaveState" =>
          /\ store_call.id \in DOMAIN state_store
          /\ state_store[store_call.id] = store_call.state
    /\ (store_call.op = "LoadState" /\ store_call.id \in DOMAIN saved) =>
          store_call.ret = saved[store_call.id]

\* The state operations leave the state store as it is.
OperationsLeaveStore ==
    [][store_call'.op \in {"SaveState", "LoadState"} => state_store' = state_store]_vars

(***************************************************************************)
(* The skill composer (skills/composer.rs).                                *)
(***************************************************************************)
\* SkillGraphBuilder::build with everything the builder was given: the
\* outputs default to the last node
build(name, description, nodes, entry_point, outputs, permissions, proofs) ==
    [name |-> name,
     version |-> "1",
     description |-> description,
     nodes |-> nodes,
     entry_point |-> entry_point,
     outputs |-> IF outputs # <<>> THEN outputs
                 ELSE IF nodes = <<>> THEN <<>> ELSE <<nodes[Len(nodes)].id>>,
     permissions |-> permissions,
     proofs |-> proofs]

\* SkillGraph::has_output and ::has_input
has_output(g, name) == Contains(g.outputs, name)
has_input(g, name) == \E i \in DOMAIN g.nodes : g.nodes[i].kind = "Input" /\ g.nodes[i].id = name

\* The skills handed to composers: skill1 of test_compose_with_connection,
\* and a skill like its skill2 whose declared output is a name, not a node
ComposerSkills ==
    <<build("skill1", "null",
            <<InputNode("input", "string"), OperationNode("output", "StringFormat", <<"input">>)>>,
            "input", <<"output">>, <<>>, <<>>),
      build("skill2", "null",
            <<InputNode("input", "string"), OperationNode("output", "Identity", <<"input">>)>>,
            "input", <<"result">>, <<>>, <<>>)>>

\* &hash.to_hex()[..8]: the first eight hex digits of a hash, taken to differ
\* between the skills handed to composers
HexPrefixes == <<"5a1e77c0", "c3f09b12">>
hex8(hash) == HexPrefixes[CHOOSE i \in DOMAIN ComposerSkills : content_hash(ComposerSkills[i]) = hash]

\* format!("{}_{}", &skill_hash.to_hex()[..8], id)
prefixed(skill_hash, id) == hex8(skill_hash) \o "_" \o id

\* SkillComposer::new(): no skills, no connections.  The hasher of the new
\* HashMap fixes the order in which the map iterates over the skills it
\* holds: a HashMap iterates in an arbitrary order, the same for as long as
\* the map is not changed, another for another map (RandomState::new)
SkillOrders ==
    {order \in [DOMAIN ComposerSkills -> DOMAIN ComposerSkills] :
        \A i, j \in DOMAIN order : i # j => order[i] # order[j]}

new_composer(hasher) == [hasher |-> hasher, skills |-> {}, connections |-> <<>>]

\* for (skill_hash, skill) in &self.skills
iter_skills(c) ==
    SelectSeq([i \in DOMAIN c.hasher |-> ComposerSkills[c.hasher[i]]], LAMBDA g : g \in c.skills)

\* self.skills.get(&hash): Some(skill) as <<skill>>
get_skill(c, hash) ==
    IF \E g \in c.skills : content_hash(g) = hash
    THEN <<CHOOSE g \in c.skills : content_hash(g) = hash>>
    ELSE <<>>

\* SkillComposer::add_skill and ::connect
add_skill(c, g) == [c EXCEPT !.skills = @ \cup {g}]

SkillConnection(from_skill, from_output, to_skill, to_input) ==
    [from_skill |-> from_skill, from_output |-> from_output, to_skill |-> to_skill, to_input |-> to_input]

connect(c, from_skill, from_output, to_skill, to_input) ==
    [c EXCEPT !.connections = Append(@, SkillConnection(from_skill, from_output, to_skill, to_input))]

ComposerError(kind, fields) == [kind |-> kind, fields |-> fields]

\* SkillComposer::validate_connections: Ok as <<>>, Err(e) as <<e>>
RECURSIVE validate_connections_from(_, _)
validate_connections_from(c, conns) ==
    IF conns = <<>> THEN <<>>
    ELSE LET conn == Head(conns)
             from_skill == get_skill(c, conn.from_skill)
             to_skill == get_skill(c, conn.to_skill)
         IN  IF from_skill = <<>> THEN <<ComposerError("SkillNotFound", <<conn.from_skill>>)>>
             ELSE IF ~has_output(from_skill[1], conn.from_output) /\ ~has_node(from_skill[1].nodes, conn.from_output)
             THEN <<ComposerError("OutputNotFound", <<conn.from_skill, conn.from_output>>)>>
             ELSE IF to_skill = <<>> THEN <<ComposerError("SkillNotFound", <<conn.to_skill>>)>>
             ELSE IF ~has_input(to_skill[1], conn.to_input)
             THEN <<ComposerError("InputNotFound", <<conn.to_skill, conn.to_input>>)>>
             ELSE validate_connections_from(c, Tail(conns))

validate_connections(c) == validate_connections_from(c, c.connections)

\* detect_cycles, "Build adjacency list": the neighbours of a skill, one for
\* every connection that leaves it, and the in-degree of every skill
skill_neighbors(c, hash) ==
    LET leaving == SelectSeq(c.connections, LAMBDA conn : conn.from_skill = hash)
    IN  [i \in DOMAIN leaving |-> leaving[i].to_skill]

skill_in_degree(c) ==
    LET keys == {content_hash(g) : g \in c.skills} \cup {c.connections[i].to_skill : i \in DOMAIN c.connections}
    IN  [hash \in keys |-> Cardinality({i \in DOMAIN c.connections : c.connections[i].to_skill = hash})]

\* detect_cycles, the loop over the neighbours of a popped skill
RECURSIVE lower_degrees(_, _, _)
lower_degrees(neighbors, deg, queue) ==
    IF neighbors = <<>> THEN [in_degree |-> deg, queue |-> queue]
    ELSE LET neighbor == Head(neighbors)
         IN  IF neighbor \in DOMAIN deg
             THEN lower_degrees(Tail(neighbors), [deg EXCEPT ![neighbor] = @ - 1],
                                IF deg[neighbor] - 1 = 0 THEN Append(queue, neighbor) ELSE queue)
             ELSE lower_degrees(Tail(neighbors), deg, queue)

\* detect_cycles, "Kahn's algorithm": the number of skills popped
RECURSIVE count_processed(_, _, _, _)
count_processed(c, queue, deg, processed) ==
    IF queue = <<>> THEN processed
    ELSE LET hash == queue[Len(queue)]
             next == lower_degrees(skill_neighbors(c, hash), deg, SubSeq(queue, 1, Len(queue) - 1))
         IN  count_processed(c, next.queue, next.in_degree, processed + 1)

\* detect_cycles without the connections of a skill to itself
detect_cycles_NoSelfConnection(c) ==
    LET d == [c EXCEPT !.connections = SelectSeq(@, LAMBDA conn : conn.from_skill # conn.to_skill)]
        deg == skill_in_degree(d)
        keys == iter_skills(d)
        queue == SelectSeq([i \in DOMAIN keys |-> content_hash(keys[i])], LAMBDA hash : deg[hash] = 0)
    IN  IF count_processed(d, queue, deg, 0) # Cardinality(d.skills)
        THEN <<ComposerError("CycleDetected", <<>>)>>
        ELSE <<>>

\* SkillComposer::detect_cycles: Ok as <<>>, Err(CycleDetected) as <<e>>.
\* The queue starts with the skills of in-degree 0 in the order of a map;
\* the number of skills popped does not depend on it
detect_cycles(c) ==
    LET deg == skill_in_degree(c)
        keys == iter_skills(c)
        queue == SelectSeq([i \in DOMAIN keys |-> content_hash(keys[i])], LAMBDA hash : deg[hash] = 0)
    IN  IF count_processed(c, queue, deg, 0) # Cardinality(c.skills)
        THEN <<ComposerError("CycleDetected", <<>>)>>
        ELSE <<>>

\* mapping.get(&(skill_hash, id)).cloned().unwrap_or_else(|| format!(..))
mapped_id(mapping, skill_hash, id) ==
    IF <<skill_hash, id>> \in DOMAIN mapping THEN mapping[<<skill_hash, id>>]
    ELSE prefixed(skill_hash, id)

\* SkillComposer::remap_node
remap_node(node, skill_hash, mapping) ==
    IF node.kind = "Input" THEN [node EXCEPT !.id = prefixed(skill_hash, @)]
    ELSE [node EXCEPT !.id = prefixed(skill_hash, @),
                      !.inputs = [k \in DOMAIN @ |-> mapped_id(mapping, skill_hash, @[k])]]

\* compose, "Add nodes from each skill with prefixed IDs": the nodes of one
\* skill
RECURSIVE add_nodes(_, _, _)
add_nodes(nodes, skill_hash, b) ==
    IF nodes = <<>> THEN b
    ELSE LET node == Head(nodes)
             node_mapping == MapPut(b.node_mapping, <<skill_hash, node.id>>, prefixed(skill_hash, node.id))
         IN  add_nodes(Tail(nodes), skill_hash,
                       [b EXCEPT !.node_mapping = node_mapping,
                                 !.nodes = Append(@, remap_node(node, skill_hash, node_mapping))])

\* the same for every skill, and "Collect permissions"
RECURSIVE add_skills(_, _)
add_skills(skill_list, b) ==
    IF skill_list = <<>> THEN b
    ELSE LET skill == Head(skill_list)
             with_nodes == add_nodes(skill.nodes, content_hash(skill), b)
         IN  add_skills(Tail(skill_list), [with_nodes EXCEPT !.permissions = @ \o skill.permissions])

\* compose, "Add bridge nodes for connections", from connection i on
RECURSIVE add_bridges(_, _, _)
add_bridges(conns, i, b) ==
    IF conns = <<>> THEN b
    ELSE LET conn == Head(conns)
             from_id == mapped_id(b.node_mapping, conn.from_skill, conn.from_output)
             bridge_id == "bridge_" \o ToString(i)
         IN  add_bridges(Tail(conns), i + 1,
                         [b EXCEPT !.nodes = Append(@, OperationNode(bridge_id, "Identity", <<from_id>>)),
                                   !.node_mapping = MapPut(@, <<conn.to_skill, conn.to_input>>, bridge_id)])

\* compose, "Determine outputs (from skills that have no outgoing
\* connections)"
RECURSIVE add_outputs(_, _, _)
add_outputs(skill_list, conns, b) ==
    IF skill_list = <<>> THEN b
    ELSE LET skill == Head(skill_list)
             skill_hash == content_hash(skill)
             mapped == [k \in DOMAIN skill.outputs |-> mapped_id(b.node_mapping, skill_hash, skill.outputs[k])]
         IN  add_outputs(Tail(skill_list), conns,
                         IF \E k \in DOMAIN conns : conns[k].from_skill = skill_hash THEN b
                         ELSE [b EXCEPT !.outputs = @ \o mapped])

\* SkillComposer::combine_proofs: the sums of the proofs of the skills, then
\* the floors
RECURSIVE sum_proofs(_, _)
sum_proofs(proofs, total) ==
    IF proofs = <<>> THEN total
    ELSE LET proof == Head(proofs)
         IN  sum_proofs(Tail(proofs),
                        [max_steps |-> total.max_steps + proof.max_steps,
                         fuel_budget |-> total.fuel_budget + proof.fuel_budget,
                         memory |-> total.memory + (IF proof.memory_bound = <<>> THEN 0 ELSE proof.memory_bound[1]),
                         halting_proven |-> total.halting_proven /\ proof.halting_proven])

RECURSIVE all_proofs(_)
all_proofs(skill_list) ==
    IF skill_list = <<>> THEN <<>> ELSE Head(skill_list).proofs \o all_proofs(Tail(skill_list))

combine_proofs(c) ==
    LET total == sum_proofs(all_proofs(iter_skills(c)),
                            [max_steps |-> 0, fuel_budget |-> 0, memory |-> 0, halting_proven |-> TRUE])
        floor(x, least) == IF x < least THEN least ELSE x
    IN  [max_steps |-> floor(total.max_steps, 1000),
         fuel_budget |-> floor(total.fuel_budget, 10000),
         halting_proven |-> total.halting_proven,
         memory_bound |-> <<floor(total.memory, 1024 * 1024)>>]

\* SkillComposer::compose: Err(e) as [ok |-> FALSE, error |-> e], Ok(composed)
\* with the fields of the ComposedSkill
compose(c, name) ==
    IF c.skills = {} THEN [ok |-> FALSE, error |-> ComposerError("EmptyComposition", <<>>)]
    ELSE IF validate_connections(c) # <<>> THEN [ok |-> FALSE, error |-> validate_connections(c)[1]]
    ELSE IF detect_cycles(c) # <<>> THEN [ok |-> FALSE, error |-> detect_cycles(c)[1]]
    ELSE LET skill_list == iter_skills(c)
             with_skills == add_skills(skill_list, [nodes |-> <<>>, permissions |-> <<>>, outputs |-> <<>>,
                                                    node_mapping |-> EmptyMap])
             with_bridges == add_bridges(c.connections, 0, with_skills)
             b == add_outputs(skill_list, c.connections, with_bridges)
             composed == build(name, "Composed from " \o ToString(Cardinality(c.skills)) \o " skills",
                               b.nodes, "null", b.outputs, b.permissions, <<combine_proofs(c)>>)
         IN  [ok |-> TRUE,
              graph |-> composed,
              source_skills |-> [i \in DOMAIN skill_list |-> content_hash(skill_list[i])],
              composition_hash |-> content_hash(composed)]

(***************************************************************************)
(* Composers at work: skills added, connections made, compose called.      *)
(***************************************************************************)
SkillHashes == {content_hash(ComposerSkills[i]) : i \in DOMAIN ComposerSkills}
OutputNames == {"output", "result"}
InputNames == {"input", "result"}
ComposeNames == {"pipeline", "composed"}

composerOtherVars == <<gwVars, proofVars, topoVars, regVars, sm_call, routerVars, verify_graph, verify_ret, storeVars, lateVars>>

\* SkillComposer::new()
NewComposer ==
    /\ composer.hasher = <<>>
    /\ \E hasher \in SkillOrders : composer' = new_composer(hasher)
    /\ UNCHANGED <<compose_ret, composerOtherVars>>

\* composer.add_skill(graph)
AddSkill ==
    /\ composer.hasher # <<>>
    /\ \E i \in DOMAIN ComposerSkills : composer' = add_skill(composer, ComposerSkills[i])
    /\ compose_ret' = NoCompose
    /\ UNCHANGED composerOtherVars

\* composer.connect(from_skill, from_output, to_skill, to_input)
Connect ==
    /\ composer.hasher # <<>>
    /\ Len(composer.connections) < MaxConnections
    /\ \E from_skill \in SkillHashes, from_output \in OutputNames, to_skill \in SkillHashes, to_input \in InputNames :
          composer' = connect(composer, from_skill, from_output, to_skill, to_input)
    /\ compose_ret' = NoCompose
    /\ UNCHANGED composerOtherVars

\* composer.compose(name)
Compose ==
    /\ composer.hasher # <<>>
    /\ \E name \in ComposeNames :
          compose_ret' = [called |-> TRUE, name |-> name, composer |-> composer, ret |-> compose(composer, name)]
    /\ UNCHANGED <<composer, composerOtherVars>>

\* Another composer is made and given the same skills and the same
\* connections: SkillComposer::new(), then the add_skill and connect calls
\* again
Rebuild ==
    /\ composer.hasher # <<>>
    /\ \E hasher \in SkillOrders \ {composer.hasher} : composer' = [composer EXCEPT !.hasher = hasher]
    /\ UNCHANGED <<compose_ret, composerOtherVars>>

ComposerNext == NewComposer \/ AddSkill \/ Connect \/ Compose \/ Rebuild

SpecComposer == Init /\ [][ComposerNext]_vars

\* compose returned Ok(composed)
Composed == compose_ret.called /\ compose_ret.ret.ok

\* The node of a graph with the id
NodeOf(g, id) == g.nodes[CHOOSE i \in DOMAIN g.nodes : g.nodes[i].id = id]

\* Connection i (counted from 0) of the composer has its bridge: a node
\* bridge_i that is an Identity operation with one input, the renamed
\* from_output of the source skill
BridgeInPlace(c, g, i) ==
    LET conn == c.connections[i + 1]
        bridge_id == "bridge_" \o ToString(i)
    IN  /\ has_node(g.nodes, bridge_id)
        /\ NodeOf(g, bridge_id).kind = "Operation"
        /\ NodeOf(g, bridge_id).op = "Identity"
        /\ NodeOf(g, bridge_id).inputs = <<prefixed(conn.from_skill, conn.from_output)>>

\* Wherever a node of the downstream skill lists the to_input of connection
\* i, the node renamed in the composed graph lists bridge_i
PointsAtBridge(c, g, i) ==
    LET conn == c.connections[i + 1]
        downstream == get_skill(c, conn.to_skill)[1]
    IN  \A n \in DOMAIN downstream.nodes :
           \A k \in DOMAIN downstream.nodes[n].inputs :
              downstream.nodes[n].inputs[k] = conn.to_input
                 => NodeOf(g, prefixed(conn.to_skill, downstream.nodes[n].id)).inputs[k] = "bridge_" \o ToString(i)

\* C27: in a composed graph every connection i has a node bridge_i, an
\* Identity operation whose single input is the renamed source node, and
\* every reference to the connection's to_input inside the downstream skill
\* points at bridge_i
BridgesCarryConnections ==
    Composed =>
        \A i \in 0..(Len(compose_ret.composer.connections) - 1) :
            /\ BridgeInPlace(compose_ret.composer, compose_ret.ret.graph, i)
            /\ PointsAtBridge(compose_ret.composer, compose_ret.ret.graph, i)

\* The bridge nodes themselves are in every composed graph
BridgesInserted ==
    Composed =>
        \A i \in 0..(Len(compose_ret.composer.connections) - 1) :
            BridgeInPlace(compose_ret.composer, compose_ret.ret.graph, i)

\* In no composed graph does a node of a downstream skill list a bridge
BridgesUnused ==
    Composed =>
        \A n \in DOMAIN compose_ret.ret.graph.nodes :
            \A k \in DOMAIN compose_ret.ret.graph.nodes[n].inputs :
                ~starts_with(compose_ret.ret.graph.nodes[n].inputs[k], "bridge_")

\* The composer of the last compose held two skills that pass the verifier
\* and one connection, from one of them to the other
PairConnected ==
    /\ Composed
    /\ Cardinality(compose_ret.composer.skills) = 2
    /\ \A g \in compose_ret.composer.skills : verify_with_graph(g).safe
    /\ Len(compose_ret.composer.connections) = 1
    /\ compose_ret.composer.connections[1].from_skill # compose_ret.composer.connections[1].to_skill

\* C28: composing two skills that each pass the verifier, with a valid
\* connection from an output of one to an input of the other, yields a graph
\* that passes the verifier: safe, with no errors
ComposedPairPassesVerifier ==
    PairConnected =>
        /\ verify_with_graph(compose_ret.ret.graph).safe
        /\ verify_with_graph(compose_ret.ret.graph).errors = <<>>

\* The same where the from_output of the connection is the id of a node of
\* the source skill
ComposedPairPassesVerifierFromNode ==
    (/\ PairConnected
     /\ has_node(get_skill(compose_ret.composer, compose_ret.composer.connections[1].from_skill)[1].nodes,
                 compose_ret.composer.connections[1].from_output))
        => /\ verify_with_graph(compose_ret.ret.graph).safe
           /\ verify_with_graph(compose_ret.ret.graph).errors = <<>>

\* A pair connected from a node of the source skill has been composed
PairComposedFromNode ==
    /\ PairConnected
    /\ has_node(get_skill(compose_ret.composer, compose_ret.composer.connections[1].from_skill)[1].nodes,
                compose_ret.composer.connections[1].from_output)

\* compose has returned Ok before and returns Ok in this step, for the same
\* skills, the same connections and the same name
ComposedAgain ==
    /\ Composed
    /\ compose_ret'.called
    /\ compose_ret'.ret.ok
    /\ compose_ret'.composer.skills = compose_ret.composer.skills
    /\ compose_ret'.composer.connections = compose_ret.composer.connections
    /\ compose_ret'.name = compose_ret.name

\* C29: composing the same skills with the same connections and the same
\* name again yields a composed graph with the same content hash
RecomposedHashStable ==
    [][ComposedAgain => compose_ret'.ret.composition_hash = compose_ret.ret.composition_hash]_vars

\* The same for one composer: its map of skills iterates as it did before
RecomposedHashStableInComposer ==
    [][(ComposedAgain /\ compose_ret'.composer.hasher = compose_ret.composer.hasher)
          => compose_ret'.ret.composition_hash = compose_ret.ret.composition_hash]_vars

\* The skill-level edges of a composer, one for every connection, and
\* whether some skill reaches itself along them
SkillEdges(c) == {<<c.connections[i].from_skill, c.connections[i].to_skill>> : i \in DOMAIN c.connections}
SkillCycle(c) == \E e \in SkillEdges(c) : e[1] \in Reachable(SkillEdges(c), {e[2]})

\* compose returned Err(CycleDetected)
CycleReported ==
    /\ compose_ret.called
    /\ ~compose_ret.ret.ok
    /\ compose_ret.ret.error.kind = "CycleDetected"

steps_exceeded_AfterLimit(steps, limit) == steps > limit

\* execute: ctx.steps >= self.config.max_steps
steps_exceeded(steps, limit) == steps >= limit

stepperOtherVars == <<gwVars, proofVars, regVars, sm_call, routerVars, verify_graph, verify_ret, storeVars, composerVars, retry, chan, event_bus>>

\* execute is called on an interpreter whose config has the limit: "let mut
\* ctx = ExecutionContext::new()" and "graph.topo_sort()?"
ExecuteStart ==
    /\ stepper.pc = "idle"
    /\ \E limit \in 0..MaxStepLimit, q \in InitialQueues(graph) :
          LET sorted == topo_sort(graph, q)
          IN  stepper' = [pc |-> IF sorted.ok THEN "loop" ELSE "done",
                          limit |-> limit,
                          sorted |-> sorted,
                          todo |-> sorted.order,
                          steps |-> 0,
                          trace |-> <<>>,
                          node_values |-> EmptyMap,
                          ran |-> 0,
                          ok |-> FALSE,
                          error |-> sorted.error,
                          outputs |-> EmptyMap,
                          hash |-> <<>>]
    /\ UNCHANGED <<topoVars, stepperOtherVars>>

\* One turn of "for node in sorted_nodes": the test of the limit, then
\* execute_node; ran counts the execute_node calls
ExecuteNode ==
    /\ stepper.pc = "loop"
    /\ stepper.todo # <<>>
    /\ stepper' =
          IF steps_exceeded(stepper.steps, stepper.limit)
          THEN [stepper EXCEPT !.pc = "done", !.error = "ExecutionError: Maximum execution steps exceeded"]
          ELSE LET node == graph[CHOOSE i \in DOMAIN graph : graph[i].id = Head(stepper.todo)]
                   value == execute_node(node, ExecInputs, stepper.node_values)
               IN  [stepper EXCEPT !.todo = Tail(@),
                                   !.node_values = MapPut(@, node.id, value),
                                   !.trace = Append(@, node.id),
                                   !.steps = @ + 1,
                                   !.ran = @ + 1]
    /\ UNCHANGED <<topoVars, stepperOtherVars>>

\* After the loop: the outputs (Graph.outputs names every node), the hash,
\* Ok(ExecutionResult)
ExecuteReturn ==
    /\ stepper.pc = "loop"
    /\ stepper.todo = <<>>
    /\ stepper' = [stepper EXCEPT !.pc = "done", !.ok = TRUE,
                                  !.outputs = [id \in {graph[i].id : i \in DOMAIN graph} \cap DOMAIN stepper.node_values |->
                                                  stepper.node_values[id]],
                                  !.hash = compute_execution_hash(stepper.trace, stepper.node_values)]
    /\ UNCHANGED <<topoVars, stepperOtherVars>>

StepsNext == ExecuteStart \/ ExecuteNode \/ ExecuteReturn

SpecSteps == TopoInit /\ [][StepsNext]_vars

\* C31: execute never runs more than max_steps nodes: where the graph has
\* more, it runs max_steps of them and fails with "Maximum execution steps
\* exceeded"; where it has no more, it runs them all
StepsWithinLimit ==
    stepper.pc # "idle" =>
        /\ stepper.ran <= stepper.limit
        /\ (stepper.pc = "done" /\ stepper.sorted.ok) =>
              IF Len(stepper.sorted.order) > stepper.limit
              THEN /\ ~stepper.ok
                   /\ stepper.error = "ExecutionError: Maximum execution steps exceeded"
                   /\ stepper.ran = stepper.limit
              ELSE /\ stepper.ok
                   /\ stepper.ran = Len(stepper.sorted.order)

\* execute has run a node, as many as the limit, and failed at the next
StoppedAtLimit ==
    /\ stepper.pc = "done"
    /\ ~stepper.ok
    /\ stepper.error = "ExecutionError: Maximum execution steps exceeded"
    /\ stepper.ran = stepper.limit
    /\ stepper.ran >= 1

(***************************************************************************)
(* Retrying channel operations (channels/common/retry.rs).  Durations are  *)
(* counted in units of retry_after; the backoff delay of with_retry is     *)
(* slept, its length plays no part.                                        *)
(***************************************************************************)
\* ChannelError; retry_after is read for RateLimited only
ChannelError(kind, retry_after) == [kind |-> kind, retry_after |-> retry_after]

RetryAfters == {0, 1, 2}

ChannelErrors ==
    {ChannelError(kind, 0) : kind \in {"ConnectionFailed", "SendFailed", "ReceiveFailed", "PermissionDenied",
                                      "InvalidMessage", "ChannelClosed", "AuthenticationFailed"}}
      \cup {ChannelError("RateLimited", retry_after) : retry_after \in RetryAfters}

\* What the operation returns: Ok(result) or Err(e)
OperationResults == {[ok |-> TRUE]} \cup {[ok |-> FALSE, error |-> e] : e \in ChannelErrors}

\* should_retry that retries every error
should_retry_Always(error) == TRUE

\* should_retry
should_retry(error) ==
    CASE error.kind = "ConnectionFailed" -> TRUE
      [] error.kind = "SendFailed" -> TRUE
      [] error.kind = "ReceiveFailed" -> TRUE
      [] error.kind = "RateLimited" -> TRUE
      [] error.kind = "PermissionDenied" -> FALSE
      [] error.kind = "InvalidMessage" -> FALSE
      [] error.kind = "ChannelClosed" -> FALSE
      [] error.kind = "AuthenticationFailed" -> FALSE

\* with_retry, the test of the attempts that gives up one attempt early
retries_exhausted_Early(attempts, max_retries) == attempts >= max_retries

\* with_retry: attempts > policy.max_retries
retries_exhausted(attempts, max_retries) == attempts > max_retries

\* RetryResult
Success == [kind |-> "Success"]
Failed(last_error, attempts) == [kind |-> "Failed", last_error |-> last_error, attempts |-> attempts]
RateLimited(retry_after) == [kind |-> "RateLimited", retry_after |-> retry_after]

\* with_retry, one turn of its loop on what the operation returned: the
\* attempts, and Some(result) as <<result>> where it returns
with_retry_turn(max_retries, attempts, outcome) ==
    IF outcome.ok THEN [attempts |-> attempts, ret |-> <<Success>>]
    ELSE IF ~should_retry(outcome.error) THEN [attempts |-> attempts, ret |-> <<Failed(outcome.error, attempts)>>]
    ELSE IF outcome.error.kind = "RateLimited"
    THEN [attempts |-> attempts, ret |-> <<RateLimited(outcome.error.retry_after)>>]
    ELSE IF retries_exhausted(attempts + 1, max_retries)
    THEN [attempts |-> attempts + 1, ret |-> <<Failed(outcome.error, attempts + 1)>>]
    ELSE [attempts |-> attempts + 1, ret |-> <<>>]

\* with_rate_limit_retry, one turn of its loop on what with_retry returned:
\* total_wait, and Some(result) as <<result>> where it returns
rate_limit_turn(max_rate_limit_wait, total_wait, returned) ==
    IF returned.kind # "RateLimited" THEN [total_wait |-> total_wait, ret |-> <<returned>>]
    ELSE IF total_wait + returned.retry_after > max_rate_limit_wait
    THEN [total_wait |-> total_wait + returned.retry_after,
          ret |-> <<Failed(ChannelError("RateLimited", returned.retry_after), 0)>>]
    ELSE [total_wait |-> total_wait + returned.retry_after, ret |-> <<>>]

retryOtherVars == <<gwVars, proofVars, topoVars, regVars, sm_call, routerVars, verify_graph, verify_ret, storeVars, composerVars, stepper, chan, event_bus>>

\* with_retry(policy, operation) or with_rate_limit_retry(policy,
\* max_rate_limit_wait, operation) is called.  outcomes are the results of
\* the operation in the running with_retry call, waited is the time slept
\* on rate limits
StartRetry ==
    /\ retry.pc = "idle"
    /\ \E fn \in {"with_retry", "with_rate_limit_retry"}, max_retries \in 0..MaxRetries, wait \in 0..MaxWait :
          /\ fn = "with_retry" => wait = 0
          /\ retry' = [pc |-> "call", fn |-> fn, max_retries |-> max_retries, max_rate_limit_wait |-> wait,
                       attempts |-> 0, outcomes |-> <<>>, total_wait |-> 0, waited |-> 0, sleeping |-> 0,
                       ret |-> <<>>]
    /\ UNCHANGED retryOtherVars

\* operation().await and the match on its result, up to the sleep or the
\* return; in with_rate_limit_retry the match on what with_retry returned
\* follows at once
Operation ==
    /\ retry.pc = "call"
    /\ \E outcome \in OperationResults :
          LET inner == with_retry_turn(retry.max_retries, retry.attempts, outcome)
              outer == rate_limit_turn(retry.max_rate_limit_wait, retry.total_wait, inner.ret[1])
              called == [retry EXCEPT !.attempts = inner.attempts, !.outcomes = Append(@, outcome)]
          IN  retry' =
                 IF inner.ret = <<>> THEN [called EXCEPT !.pc = "sleep"]
                 ELSE IF retry.fn = "with_retry" THEN [called EXCEPT !.pc = "done", !.ret = inner.ret]
                 ELSE IF outer.ret # <<>>
                 THEN [called EXCEPT !.pc = "done", !.ret = outer.ret, !.total_wait = outer.total_wait]
                 ELSE [called EXCEPT !.pc = "rate_sleep", !.total_wait = outer.total_wait,
                                     !.sleeping = inner.ret[1].retry_after]
    /\ UNCHANGED retryOtherVars

\* with_retry: tokio::time::sleep(delay).await, then the loop again
SleepBackoff ==
    /\ retry.pc = "sleep"
    /\ retry' = [retry EXCEPT !.pc = "call"]
    /\ UNCHANGED retryOtherVars

\* with_rate_limit_retry: tokio::time::sleep(retry_after).await, then
\* with_retry again
SleepRateLimit ==
    /\ retry.pc = "rate_sleep"
    /\ retry' = [retry EXCEPT !.pc = "call", !.waited = @ + retry.sleeping, !.sleeping = 0,
                              !.attempts = 0, !.outcomes = <<>>]
    /\ UNCHANGED retryOtherVars

RetryNext == StartRetry \/ Operation \/ SleepBackoff \/ SleepRateLimit

SpecRetry == Init /\ [][RetryNext]_vars

\* The operation always returns and every sleep ends
SpecRetryLive == Init /\ [][RetryNext]_vars /\ WF_vars(RetryNext)

\* C32: a rate-limited operation is retried after sleeping for the reported
\* retry_after, the time slept on rate limits never exceeds
\* max_rate_limit_wait, and with_rate_limit_retry returns in the end even if
\* the operation keeps returning RateLimited
RateLimitRetryReturns ==
    /\ [](retry.pc = "rate_sleep" =>
             /\ retry.outcomes[Len(retry.outcomes)].error.kind = "RateLimited"
             /\ retry.sleeping = retry.outcomes[Len(retry.outcomes)].error.retry_after)
    /\ [](retry.pc # "idle" => retry.waited + retry.sleeping <= retry.max_rate_limit_wait)
    /\ (retry.pc # "idle" ~> retry.pc = "done")

\* The time slept on rate limits, the sleep under way included, is within
\* the ceiling, and each sleep is as long as the retry_after reported
RateLimitWaitWithinCeiling ==
    retry.pc # "idle" =>
        /\ retry.waited + retry.sleeping <= retry.max_rate_limit_wait
        /\ retry.pc = "rate_sleep" =>
              /\ retry.outcomes[Len(retry.outcomes)].error.kind = "RateLimited"
              /\ retry.sleeping = retry.outcomes[Len(retry.outcomes)].error.retry_after

\* A call returns unless the operation reports a retry_after of zero again
\* and again
ReturnsUnlessZeroRetryAfter ==
    []<>(retry.pc = "done" \/ (retry.pc = "rate_sleep" /\ retry.sleeping = 0))

\* The operation failed with one of the three errors of a connection
Transient(outcome) == ~outcome.ok /\ outcome.error.kind \in {"ConnectionFailed", "SendFailed", "ReceiveFailed"}

\* The operation failed with one of the four errors that are final
Final(outcome) ==
    ~outcome.ok /\ outcome.error.kind \in {"PermissionDenied", "InvalidMessage", "ChannelClosed", "AuthenticationFailed"}

LastOutcome == retry.outcomes[Len(retry.outcomes)]

\* C33: with_retry invokes the operation again only after ConnectionFailed,
\* SendFailed or ReceiveFailed; on PermissionDenied, InvalidMessage,
\* ChannelClosed or AuthenticationFailed it returns that error after that
\* invocation
RetriesTransientOnly ==
    (retry.pc # "idle" /\ retry.outcomes # <<>>) =>
        /\ \A i \in 1..(Len(retry.outcomes) - 1) : Transient(retry.outcomes[i])
        /\ retry.pc = "sleep" => Transient(LastOutcome)
        /\ Final(LastOutcome) =>
              /\ retry.pc = "done"
              /\ retry.ret = <<Failed(LastOutcome.error, Len(retry.outcomes) - 1)>>

\* with_retry has retried once and then returned a PermissionDenied
FinalErrorSurfaced ==
    /\ retry.pc = "done"
    /\ retry.fn = "with_retry"
    /\ Len(retry.outcomes) = 2
    /\ Transient(retry.outcomes[1])
    /\ Final(LastOutcome)
    /\ LastOutcome.error.kind = "PermissionDenied"
    /\ retry.ret = <<Failed(LastOutcome.error, 1)>>

\* C34: with_retry invokes the operation at most max_retries + 1 times;
\* after k failures that are retried, k <= max_retries, it invokes it again,
\* and if that invocation succeeds it returns Success, after k + 1
\* invocations; after max_retries + 1 such failures it returns Failed
InvokesAtMostMaxRetriesPlusOne ==
    (retry.pc # "idle" /\ retry.outcomes # <<>>) =>
        /\ Len(retry.outcomes) <= retry.max_retries + 1
        /\ (\A i \in DOMAIN retry.outcomes : Transient(retry.outcomes[i])) =>
              IF Len(retry.outcomes) <= retry.max_retries
              THEN retry.pc \in {"sleep", "call"}
              ELSE retry.pc = "done" /\ retry.ret = <<Failed(LastOutcome.error, retry.max_retries + 1)>>
        /\ LastOutcome.ok => retry.pc = "done" /\ retry.ret = <<Success>>

\* with_retry has returned Success at the third invocation, after two
\* failures: test_successful_retry
SucceededAfterTwoFailures ==
    /\ retry.pc = "done"
    /\ retry.fn = "with_retry"
    /\ Len(retry.outcomes) = 3
    /\ Transient(retry.outcomes[1])
    /\ Transient(retry.outcomes[2])
    /\ retry.ret = <<Success>>

(***************************************************************************)
(* The queue of incoming messages of a channel adapter (channels/slack,    *)
(* channels/telegram, channels/discord): a tokio mpsc channel made with    *)
(* mpsc::channel(100).  A message is known by its place in the order in    *)
(* which the sends went through.                                           *)
(***************************************************************************)
QueueCapacity == 100   \* mpsc::channel(100)

Handlers == {"h1", "h2"}

\* A send that gives the message up when the queue is full
send_to_queue_DropWhenFull(queue, incoming) ==
    IF Len(queue) < QueueCapacity THEN [sent |-> TRUE, queue |-> Append(queue, incoming)]
    ELSE [sent |-> TRUE, queue |-> queue]

\* tx.send(incoming).await on a bounded queue: the message is appended when
\* the queue has room; until then the sender waits with it
send_to_queue(queue, incoming) ==
    IF Len(queue) < QueueCapacity THEN [sent |-> TRUE, queue |-> Append(queue, incoming)]
    ELSE [sent |-> FALSE, queue |-> queue]

chanOtherVars == <<gwVars, proofVars, topoVars, regVars, sm_call, routerVars, verify_graph, verify_ret, storeVars, composerVars, stepper, retry, event_bus>>

\* SlackChannel::new, TelegramChannel::new, DiscordChannel::connect: "let
\* (tx, rx) = mpsc::channel(100)"
NewChannel ==
    /\ ~chan.made
    /\ chan' = [made |-> TRUE, queue |-> <<>>, sending |-> [h \in Handlers |-> FALSE], arrived |-> 0,
                enqueued |-> 0, delivered |-> <<>>]
    /\ UNCHANGED chanOtherVars

\* An event reaches a handler (process_event, the listener's closure,
\* Handler::message), which converts it to an IncomingMessage
Arrive(h) ==
    /\ chan.made
    /\ ~chan.sending[h]
    /\ chan.arrived < MaxIncoming
    /\ chan' = [chan EXCEPT !.arrived = @ + 1, !.sending[h] = TRUE]
    /\ UNCHANGED chanOtherVars

\* The handler's tx.send(incoming).await gets on, or has to wait
Send(h) ==
    /\ chan.made
    /\ chan.sending[h]
    /\ LET r == send_to_queue(chan.queue, chan.enqueued + 1)
       IN  /\ r.sent
           /\ chan' = [chan EXCEPT !.queue = r.queue, !.sending[h] = FALSE, !.enqueued = @ + 1]
    /\ UNCHANGED chanOtherVars

\* Channel::receive: rx.recv().await returns the message at the head
Receive ==
    /\ chan.made
    /\ chan.queue # <<>>
    /\ chan' = [chan EXCEPT !.queue = Tail(@), !.delivered = Append(@, Head(chan.queue))]
    /\ UNCHANGED chanOtherVars

ChannelNext == NewChannel \/ (\E h \in Handlers : Arrive(h) \/ Send(h)) \/ Receive

SpecChannel == Init /\ [][ChannelNext]_vars

\* C35: the queue holds at most 100 messages; a message that finds it full
\* stays with its sender; receive() has returned the messages enqueued, in
\* the order they were enqueued, up to those still in the queue, so every
\* message that arrived is delivered, queued or with its sender
QueueLosesNothing ==
    chan.made =>
        /\ Len(chan.queue) <= QueueCapacity
        /\ chan.delivered \o chan.queue = [m \in 1..chan.enqueued |-> m]
        /\ chan.enqueued + Cardinality({h \in Handlers : chan.sending[h]}) = chan.arrived

\* The queue is full, a sender waits with its message, and receive() has
\* returned a message
SenderWaitsAtFullQueue ==
    /\ chan.made
    /\ Len(chan.queue) = QueueCapacity
    /\ \E h \in Handlers : chan.sending[h]
    /\ chan.delivered # <<>>

(***************************************************************************)
(* The event bus (gateway/events.rs) on its own: a bus made with or        *)
(* without with_history, and any sequence of publish and clear_history     *)
(* calls on it.  An event is its event_type.                               *)
(***************************************************************************)
DefaultMaxHistory == 1000   \* EventBus::with_capacity: max_history
BusEvents == {"message_received", "session_expired", "error"}

\* EventBus::publish, "Add to history if enabled", with a test that lets
\* the history grow to one event more
push_history_KeepOneMore(history, max_history, event) ==
    IF Len(history) > max_history
    THEN Append(Tail(history), event)
    ELSE Append(history, event)

\* EventBus::publish, "Add to history if enabled": history.remove(0) when
\* the history is full, then history.push(event)
push_history(history, max_history, event) ==
    IF Len(history) >= max_history
    THEN Append(Tail(history), event)
    ELSE Append(history, event)

\* The last n elements of a sequence
last_events(log, n) ==
    IF Len(log) <= n THEN log ELSE SubSeq(log, Len(log) - n + 1, Len(log))

busOtherVars == <<gwVars, proofVars, topoVars, regVars, sm_call, routerVars, verify_graph, verify_ret, storeVars, composerVars, stepper, retry, chan>>

\* EventBus::new
NewBus ==
    /\ ~event_bus.made
    /\ event_bus' = [made |-> TRUE, keep_history |-> FALSE, max_history |-> DefaultMaxHistory,
                      history |-> <<>>, events_published |-> 0, log |-> <<>>, panicked |-> FALSE]
    /\ UNCHANGED busOtherVars

\* EventBus::new().with_history(max_size)
NewBusWithHistory ==
    /\ ~event_bus.made
    /\ \E max_size \in 0..MaxHistory :
          event_bus' = [made |-> TRUE, keep_history |-> TRUE, max_history |-> max_size,
                        history |-> <<>>, events_published |-> 0, log |-> <<>>, panicked |-> FALSE]
    /\ UNCHANGED busOtherVars

\* EventBus::publish(event): the statistics, then the history, then the
\* broadcast.  With max_history = 0 the history is empty and "full", and
\* Vec::remove(0) panics after the statistics were updated.
Publish ==
    /\ event_bus.made
    /\ ~event_bus.panicked
    /\ event_bus.events_published < MaxPublished
    /\ \E event \in BusEvents :
          event_bus' =
              IF ~event_bus.keep_history
              THEN [event_bus EXCEPT !.events_published = @ + 1, !.log = Append(@, event)]
              ELSE IF Len(event_bus.history) >= event_bus.max_history /\ event_bus.history = <<>>
              THEN [event_bus EXCEPT !.events_published = @ + 1, !.panicked = TRUE]
              ELSE [event_bus EXCEPT !.events_published = @ + 1, !.log = Append(@, event),
                                     !.history = push_history(@, event_bus.max_history, event)]
    /\ UNCHANGED busOtherVars

\* EventBus::clear_history; the log restarts with it
ClearHistory ==
    /\ event_bus.made
    /\ ~event_bus.panicked
    /\ event_bus.history # <<>>
    /\ event_bus' = [event_bus EXCEPT !.history = <<>>, !.log = <<>>]
    /\ UNCHANGED busOtherVars

BusNext == NewBus \/ NewBusWithHistory \/ Publish \/ ClearHistory

SpecBus == Init /\ [][BusNext]_vars

\* C40: with event history enabled with maximum size N >= 1, after any
\* sequence of publish calls the history holds at most N events, and they
\* are the most recently published events in the order they were published
\* (published since the history was last cleared, when it was cleared).
HistoryHoldsLatestEvents ==
    (event_bus.made /\ event_bus.keep_history /\ event_bus.max_history >= 1) =>
        /\ Len(event_bus.history) <= event_bus.max_history
        /\ event_bus.history = last_events(event_bus.log, event_bus.max_history)

\* A history of maximum size 2 has dropped its oldest events and holds the
\* last two published, two different events.
OldestEventsDropped ==
    /\ event_bus.made
    /\ event_bus.keep_history
    /\ event_bus.max_history = 2
    /\ Len(event_bus.log) >= 4
    /\ Len(event_bus.history) = 2
    /\ event_bus.history[1] # event_bus.history[2]
    /\ event_bus.log[1] # event_bus.history[1]

\* Without with_history nothing is kept.
NoHistoryUnlessEnabled ==
    (event_bus.made /\ ~event_bus.keep_history) => event_bus.history = <<>>

====
